---- MODULE Spec2Model ----
(***************************************************************************)
(* Model of the minidfs metadata coordinator (Manager, Cache and the RPC   *)
(* surface of the metaserver).                                             *)
(*                                                                         *)
(* Representation choices:                                                 *)
(*  - a chunk id is the string "<hash>_<index>_<counter>" built by         *)
(*    generateChunkId.  The three decimal fields contain no '_', so the    *)
(*    string is determined by, and determines, the triple of numbers; the  *)
(*    model keeps the triple <<hash, index, counter>>.  The empty string   *)
(*    (the sentinel of an unwritten index) is the empty sequence <<>>.     *)
(*  - byte counts are in units of MiB where a scenario needs GiB values    *)
(*    (selectDataNodeForChunk only compares and subtracts them).           *)
(*  - the clock is in whole seconds, as duration_cast<seconds> sees it.    *)
(***************************************************************************)
EXTENDS Integers, Sequences, FiniteSets, TLC

(* ------------------------------ constants ------------------------------ *)

LIVE_WINDOW == 30

(* The sleep of the heartbeat thread and the deadline of its RPC, seconds. *)
HEARTBEAT_PERIOD == 10

HEARTBEAT_DEADLINE == 5

STALE_TIMEOUT == 60

INT32_MAX == 2147483647

INT32_MIN == (0 - 2147483647) - 1

(* ------------------------------- bounds -------------------------------- *)

MaxAlloc == 3

MaxOps == 4

MaxChunks == 2

MaxTime == 90

TickStep == 30

MaxIndex == 1

MaxSize == 1

CacheCapacity == 2

(* The capacity of the storage node, in bytes.                             *)
NodeCapacity == 3

(* The most incrementLoad calls, and the most decrementLoad calls, made.   *)
MaxCalls == 4

(* The chunks each thread of the concurrent test stores, one by one.       *)
ChunksPerThread == 2

Addrs == {"A", "B"}

Files == {"f", "g"}

SizeVals == 1..MaxSize

SpaceVals == {0, 2}

LoadVals == {0}

ForeignId == <<0>>

NoAddr == ""

NoId == <<>>

(* std::hash<std::string>: an unspecified function of the name; the two    *)
(* names of the model collide, so ids differ by index and counter only.    *)
Hash(filename) == 7

(* ------------------------------- state --------------------------------- *)

VARIABLES
  datanodes,           \* Manager::datanodes: address -> DataNodeState
  files,               \* Manager::files: filename -> FileMetadata
  chunk_to_datanodes,  \* Manager::chunk_to_datanodes: chunk id -> addresses
  chunk_counter,       \* Manager::chunk_counter
  cache_list,          \* Cache::cache_list, front (most recent) first
  now,                 \* the clock, seconds
  resp,                \* the reply of the last RPC handled
  generated,           \* history: the set of chunk ids generated so far
  issued,              \* history: the number of chunk ids generated so far
  ops,                 \* the number of RPCs handled so far
  allocLog,            \* history: <<filename, index>> -> last successful reply
  probe,               \* a direct call of selectDataNodeForChunk and its result
  client,              \* MiniDfsClient::UploadFile: the upload in progress
  uploads,             \* history: filename -> the chunk ids of its latest upload
  th,                  \* the handler threads: position and locals of each
  beat,                \* history: the last Heartbeat request handled
  cache_capacity,      \* Cache::capacity of the cache under test
  cres,                \* the last call on the cache under test and its result
  chist,               \* history of the cache under test: the constructor
                       \* argument, the ids by last use, the scenario progress
  disk,                \* storage node: chunk id -> bytes of its .chunk file
  sidecar,             \* storage node: chunk id -> contents of its .meta file
  chunk_metadata,      \* DataNodeStorage::chunk_metadata
  used_space,          \* DataNodeStorage::used_space
  total_capacity,      \* DataNodeStorage::total_capacity
  dres,                \* the last storage call completed and its result
  st,                  \* the storage threads: position and locals of each
  dl,                  \* MiniDfsClient::DownloadFile: the last download and its outcome
  storage_load,        \* DataNodeStorage::current_load
  loadCalls,           \* history: the incrementLoad / decrementLoad calls started
  metadata_mutex,      \* DataNodeStorage::metadata_mutex: the owning thread, 0 when free
  locks,               \* the coordinator's mutexes: name -> owning thread, 0 when free
  hd,                  \* the coordinator's handlers seen as lock users: the locks
                       \* each still has to take and give back
  node                 \* the storage node process: running flag, threads, server

(* The cache under test, apart from cache_list.                            *)
cacheVars == <<cache_capacity, cres, chist>>

(* The storage node.                                                       *)
storageVars == <<disk, sidecar, chunk_metadata, used_space, total_capacity, dres, st>>

(* The coordinator, its clients and the histories kept about them.         *)
coordVars == <<datanodes, files, chunk_to_datanodes, chunk_counter, cache_list,
               now, resp, generated, issued, ops, allocLog, probe, client, uploads,
               th, beat, dl>>

(* The storage node process around the engine, and the lock users.         *)
procVars == <<storage_load, loadCalls, metadata_mutex, locks, hd, node>>

vars == <<coordVars, cacheVars, storageVars, procVars>>

(* ------------------------------ helpers -------------------------------- *)

Range(s) == {s[i] : i \in 1..Len(s)}

Perms(S) == {p \in [1..Cardinality(S) -> S] : \A i, j \in 1..Cardinality(S) : p[i] = p[j] => i = j}

Remove(f, S) == [x \in (DOMAIN f) \ S |-> f[x]]

Put(f, k, v) == [x \in (DOMAIN f) \cup {k} |-> IF x = k THEN v ELSE f[x]]

Age(state, t) == t - state.last_heartbeat

(* ------------------------------- Cache --------------------------------- *)
(* cache_map is the index of cache_list by key; a lookup in cache_map is a *)
(* lookup of the key in the list.                                          *)

CacheKeys(cl) == {cl[i].key : i \in 1..Len(cl)}

CachePos(cl, id) == CHOOSE i \in 1..Len(cl) : cl[i].key = id

CacheWithout(cl, id) == SelectSeq(cl, LAMBDA e : e.key # id)

(* Variant: the entry stays where it is.                                  *)
touch_InPlace(cl, id) == cl

touch(cl, id) == <<cl[CachePos(cl, id)]>> \o CacheWithout(cl, id)

evict(cl) == IF cl # <<>> THEN SubSeq(cl, 1, Len(cl) - 1) ELSE cl

(* Variant: a new entry is pushed without making room for it.             *)
CachePut_NoEvict(cl, capacity, id, location) ==
  IF id \in CacheKeys(cl)
    THEN touch([cl EXCEPT ![CachePos(cl, id)].value = location], id)
    ELSE <<[key |-> id, value |-> location]>> \o cl

CachePut(cl, capacity, id, location) ==
  IF id \in CacheKeys(cl)
    THEN touch([cl EXCEPT ![CachePos(cl, id)].value = location], id)
    ELSE LET room == IF Len(cl) >= capacity THEN evict(cl) ELSE cl
         IN  <<[key |-> id, value |-> location]>> \o room

CacheGet(cl, id) ==
  IF id \in CacheKeys(cl)
    THEN [hit |-> TRUE, value |-> cl[CachePos(cl, id)].value, cache |-> touch(cl, id)]
    ELSE [hit |-> FALSE, value |-> [chunk_id |-> NoId, datanode_addresses |-> <<>>], cache |-> cl]

(* ------------------------------ Manager -------------------------------- *)

(* Variant: an id that leaves the counter out.                             *)
generateChunkId_NoCounter(filename, chunk_index, counter) ==
  <<Hash(filename), chunk_index, 0>>

generateChunkId(filename, chunk_index, counter) == <<Hash(filename), chunk_index, counter>>

IsStale(state, t) == Age(state, t) > STALE_TIMEOUT

IsActive(state, t) == Age(state, t) < LIVE_WINDOW

(* Variant: a sweep that drops every node outside the live window.         *)
cleanupNotLiveDataNodes(nodes, t) ==
  Remove(nodes, {a \in DOMAIN nodes : ~IsActive(nodes[a], t)})

cleanupStaleDataNodes(nodes, t) ==
  Remove(nodes, {a \in DOMAIN nodes : IsStale(nodes[a], t)})

getActiveDataNodes(nodes, t) == {a \in DOMAIN nodes : IsActive(nodes[a], t)}

(* Variant of the sweep: among equally loaded nodes the one with the       *)
(* least free space wins.                                                  *)
RECURSIVE SelectLoop_SmallestOnTie(_, _, _, _, _)
SelectLoop_SmallestOnTie(nodes, order, i, chunk_size, best) ==
  IF i > Len(order) THEN best.best_node
  ELSE LET state == nodes[order[i]]
           better == state.current_load < best.min_load
                     \/ (state.current_load = best.min_load
                         /\ state.available_space < best.max_space)
       IN  IF state.available_space >= chunk_size /\ better
             THEN SelectLoop_SmallestOnTie(nodes, order, i + 1, chunk_size,
                    [best_node |-> order[i],
                     max_space |-> state.available_space,
                     min_load  |-> state.current_load])
           ELSE SelectLoop_SmallestOnTie(nodes, order, i + 1, chunk_size, best)

(* The sweep of selectDataNodeForChunk over the table in iteration order   *)
(* `order`; best is the triple (best_node, max_space, min_load).           *)
RECURSIVE SelectLoop(_, _, _, _, _)
SelectLoop(nodes, order, i, chunk_size, best) ==
  IF i > Len(order) THEN best.best_node
  ELSE LET state == nodes[order[i]]
           better == state.current_load < best.min_load
                     \/ (state.current_load = best.min_load
                         /\ state.available_space > best.max_space)
       IN  IF state.available_space < chunk_size
             THEN SelectLoop(nodes, order, i + 1, chunk_size, best)
           ELSE IF better
             THEN SelectLoop(nodes, order, i + 1, chunk_size,
                    [best_node |-> order[i],
                     max_space |-> state.available_space,
                     min_load  |-> state.current_load])
           ELSE SelectLoop(nodes, order, i + 1, chunk_size, best)

(* nodes: the table after the stale sweep; order: its iteration order.     *)
selectDataNodeForChunk(nodes, order, chunk_size) ==
  SelectLoop(nodes, order, 1, chunk_size,
             [best_node |-> NoAddr, max_space |-> 0, min_load |-> INT32_MAX])

(* current_load++ on int32_t: wraps at INT32_MAX on the usual builds.      *)
IncLoad(load) == IF load = INT32_MAX THEN INT32_MIN ELSE load + 1

ResizeTo(chunk_ids, n) ==
  IF Len(chunk_ids) >= n THEN chunk_ids
  ELSE chunk_ids \o [k \in 1..(n - Len(chunk_ids)) |-> NoId]

EmptyFile == [filename |-> "", chunk_ids |-> <<>>, total_size |-> 0, created_at |-> 0]

(* Variant: the id is appended (push_back) instead of stored at its index. *)
UpdateFileMeta_Append(fs, filename, chunk_index, chunk_id, chunk_size, t) ==
  LET old == IF filename \in DOMAIN fs THEN fs[filename] ELSE EmptyFile
  IN  Put(fs, filename,
          [filename   |-> filename,
           chunk_ids  |-> Append(old.chunk_ids, chunk_id),
           total_size |-> old.total_size + chunk_size,
           created_at |-> IF chunk_index = 0 THEN t ELSE old.created_at])

(* The files_mutex block of allocateChunkLocation.                         *)
UpdateFileMeta(fs, filename, chunk_index, chunk_id, chunk_size, t) ==
  LET old  == IF filename \in DOMAIN fs THEN fs[filename] ELSE EmptyFile
      ids  == IF Len(old.chunk_ids) <= chunk_index
                THEN ResizeTo(old.chunk_ids, chunk_index + 1)
                ELSE old.chunk_ids
  IN  Put(fs, filename,
          [filename   |-> filename,
           chunk_ids  |-> [ids EXCEPT ![chunk_index + 1] = chunk_id],
           total_size |-> old.total_size + chunk_size,
           created_at |-> IF chunk_index = 0 THEN t ELSE old.created_at])

(* Variant: the load is counted but the space is not reserved.             *)
ReserveOnNode_LoadOnly(nodes, selected_node, chunk_size) ==
  IF selected_node \in DOMAIN nodes
    THEN [nodes EXCEPT ![selected_node].current_load = IncLoad(@)]
    ELSE nodes

(* The datanodes_mutex block at the end of allocateChunkLocation.          *)
ReserveOnNode(nodes, selected_node, chunk_size) ==
  IF selected_node \in DOMAIN nodes
    THEN [nodes EXCEPT ![selected_node].current_load = IncLoad(@),
                       ![selected_node].available_space = @ - chunk_size]
    ELSE nodes

(* The loop of getFileLocation over chunk_ids from position i on.          *)
RECURSIVE LocateChunks(_, _, _, _, _, _, _)
LocateChunks(chunk_ids, i, cl, capacity, placement, active, locations) ==
  IF i > Len(chunk_ids) THEN [cache |-> cl, locations |-> locations]
  ELSE LET chunk_id == chunk_ids[i]
           cached   == CacheGet(cl, chunk_id)
           hosts    == IF chunk_id \in DOMAIN placement
                         THEN SelectSeq(placement[chunk_id], LAMBDA n : n \in active)
                         ELSE <<>>
           info     == [chunk_id |-> chunk_id, datanode_addresses |-> hosts]
       IN  IF chunk_id = NoId
             THEN LocateChunks(chunk_ids, i + 1, cl, capacity, placement, active, locations)
           ELSE IF cached.hit
             THEN LocateChunks(chunk_ids, i + 1, cached.cache, capacity, placement, active,
                               Append(locations, cached.value))
           ELSE IF hosts # <<>>
             THEN LocateChunks(chunk_ids, i + 1, CachePut(cl, capacity, chunk_id, info),
                               capacity, placement, active, Append(locations, info))
           ELSE LocateChunks(chunk_ids, i + 1, cl, capacity, placement, active, locations)

getFileLocation(fs, filename, cl, capacity, placement, nodes, t) ==
  IF filename \notin DOMAIN fs
    THEN [cache |-> cl, locations |-> <<>>]
    ELSE LocateChunks(fs[filename].chunk_ids, 1, cl, capacity, placement,
                      getActiveDataNodes(nodes, t), <<>>)

(* Variant: the address is pushed without looking for it first.           *)
RECURSIVE AddHolder_NoFind(_, _, _, _)
AddHolder_NoFind(placement, stored_chunks, i, address) ==
  IF i > Len(stored_chunks) THEN placement
  ELSE LET chunk_id == stored_chunks[i]
           nodes    == IF chunk_id \in DOMAIN placement THEN placement[chunk_id] ELSE <<>>
       IN  AddHolder_NoFind(Put(placement, chunk_id, Append(nodes, address)),
                            stored_chunks, i + 1, address)

(* The chunks_mutex block of updateDataNodeHeartbeat.                      *)
RECURSIVE AddHolder(_, _, _, _)
AddHolder(placement, stored_chunks, i, address) ==
  IF i > Len(stored_chunks) THEN placement
  ELSE LET chunk_id == stored_chunks[i]
           nodes    == IF chunk_id \in DOMAIN placement THEN placement[chunk_id] ELSE <<>>
           added    == IF address \in Range(nodes) THEN nodes ELSE Append(nodes, address)
       IN  AddHolder(Put(placement, chunk_id, added), stored_chunks, i + 1, address)

(* --------------------------- RPC handlers ------------------------------ *)

(* The last request (op, name, index, size) and the reply sent for it.     *)
Reply(op, name, index, size, status, ok, chunk_id, addresses, chunks) ==
  [op |-> op, name |-> name, index |-> index, size |-> size, status |-> status,
   ok |-> ok, chunk_id |-> chunk_id, addresses |-> addresses, chunks |-> chunks]

(* RPCServiceImpl::AllocateChunkLocation on the pair the manager returned. *)
AllocateReply(filename, chunk_index, chunk_size, chunk_id, addresses) ==
  IF chunk_id = NoId
    THEN Reply("AllocateChunkLocation", filename, chunk_index, chunk_size,
               "RESOURCE_EXHAUSTED", FALSE, NoId, <<>>, <<>>)
    ELSE Reply("AllocateChunkLocation", filename, chunk_index, chunk_size,
               "OK", TRUE, chunk_id, addresses, <<>>)

(* RPCServiceImpl::GetFileLocation on the vector the manager returned.     *)
LocationReply(filename, locations) ==
  IF locations = <<>>
    THEN Reply("GetFileLocation", filename, 0, 0, "OK", FALSE, NoId, <<>>, <<>>)
    ELSE Reply("GetFileLocation", filename, 0, 0, "OK", TRUE, NoId, <<>>, locations)

(* The ids the coordinator placed on address, in counter order: what a     *)
(* storage node that stored every chunk sent to it reports.                *)
RECURSIVE SortedIds(_)
SortedIds(S) ==
  IF S = {} THEN <<>>
  ELSE LET m == CHOOSE x \in S : \A y \in S : x[3] <= y[3]
       IN  <<m>> \o SortedIds(S \ {m})

PlacedOn(address) ==
  SortedIds({id \in DOMAIN chunk_to_datanodes :
               id # ForeignId /\ chunk_to_datanodes[id][1] = address})

HeartbeatLists(address) == {<<>>, PlacedOn(address) \o <<ForeignId>>}

NoProbe == [chunk_size |-> 0, done |-> FALSE, result |-> NoAddr]

NoClient == [busy |-> FALSE, file |-> "", n |-> 0, i |-> 0]

Threads == {1, 2}

IdleThread ==
  [pc |-> "idle", filename |-> "", chunk_index |-> 0, chunk_size |-> 0,
   chunk_id |-> NoId, selected_node |-> NoAddr]

(* No download was made: no output file exists.                            *)
NoDownload ==
  [pc |-> "idle", file |-> "", result |-> "none", exists |-> FALSE, bytes |-> <<>>]

NoBeat ==
  [address |-> NoAddr, stored_chunks |-> <<>>, available_space |-> 0, current_load |-> 0]

NoValue == [chunk_id |-> NoId, datanode_addresses |-> <<>>]

NoCacheCall ==
  [op |-> "none", chunk_id |-> NoId, hit |-> FALSE, value |-> NoValue, size |-> 0,
   thread |-> 0]

(* The history of a cache constructed with `capacity` and not yet used.    *)
NoCacheHistory(capacity) ==
  [requested |-> capacity, order |-> <<>>, script |-> 0, on |-> TRUE]

(* The cache under test before any call on it.                             *)
IdleCache ==
  /\ cache_capacity = CacheCapacity
  /\ cres = NoCacheCall
  /\ chist = NoCacheHistory(CacheCapacity)

NoStorageCall == [op |-> "none", chunk_id |-> NoId, data |-> <<>>, ok |-> FALSE, out |-> <<>>]

IdleStorageThread ==
  [pc |-> "idle", op |-> "none", chunk_id |-> NoId, data |-> <<>>, removed |-> FALSE]

(* The mutexes of the coordinator: Manager::datanodes_mutex, files_mutex,  *)
(* chunks_mutex and Cache::cache_mutex.                                    *)
LockNames == {"nodes", "files", "chunks", "cache"}

(* A handler thread that is in no handler.                                 *)
IdleHandler == [op |-> "none", todo |-> <<>>]

(* The storage node process right after runDataNode started its threads:   *)
(* running is true, the server serves, the heartbeat thread is about to    *)
(* register, runDataNode is in server->Wait().                             *)
StartedNode ==
  [running |-> TRUE, signalled |-> FALSE, hb |-> "register", main |-> "wait",
   server |-> "serving", warned |-> FALSE, timer |-> 0, beaten |-> FALSE]

(* No load call was made, no lock is held, the node process just started.  *)
IdleProcess ==
  /\ storage_load = 0
  /\ loadCalls = [inc |-> 0, dec |-> 0]
  /\ metadata_mutex = 0
  /\ locks = [l \in LockNames |-> 0]
  /\ hd = [t \in Threads |-> IdleHandler]
  /\ node = StartedNode

(* A storage engine built over an empty root directory.                    *)
IdleStorage ==
  /\ disk = <<>>
  /\ sidecar = <<>>
  /\ chunk_metadata = <<>>
  /\ used_space = 0
  /\ total_capacity = NodeCapacity
  /\ dres = NoStorageCall
  /\ st = [t \in Threads |-> IdleStorageThread]

(* A coordinator that has handled no call, with no client at work.        *)
IdleCoordinator ==
  /\ probe = NoProbe
  /\ dl = NoDownload
  /\ client = NoClient
  /\ uploads = <<>>
  /\ th = [t \in Threads |-> IdleThread]
  /\ beat = NoBeat
  /\ datanodes = <<>>
  /\ files = <<>>
  /\ chunk_to_datanodes = <<>>
  /\ chunk_counter = 0
  /\ cache_list = <<>>
  /\ now = 0
  /\ resp = Reply("none", "", 0, 0, "OK", FALSE, NoId, <<>>, <<>>)
  /\ generated = {}
  /\ issued = 0
  /\ ops = 0
  /\ allocLog = <<>>

(* The parts of the state that only one of the specifications moves.       *)
Idle ==
  /\ probe = NoProbe
  /\ dl = NoDownload
  /\ client = NoClient
  /\ uploads = <<>>
  /\ th = [t \in Threads |-> IdleThread]
  /\ beat = NoBeat
  /\ IdleCache
  /\ IdleStorage
  /\ IdleProcess

Init ==
  /\ Idle
  /\ datanodes = <<>>
  /\ files = <<>>
  /\ chunk_to_datanodes = <<>>
  /\ chunk_counter = 0
  /\ cache_list = <<>>
  /\ now = 0
  /\ resp = Reply("none", "", 0, 0, "OK", FALSE, NoId, <<>>, <<>>)
  /\ generated = {}
  /\ issued = 0
  /\ ops = 0
  /\ allocLog = <<>>

RegisterDataNode(address, available_space) ==
  /\ datanodes' = Put(datanodes, address,
                      [address |-> address, available_space |-> available_space,
                       current_load |-> 0, stored_chunks |-> {},
                       last_heartbeat |-> now])
  /\ resp' = Reply("RegisterDataNode", "", 0, 0, "OK", TRUE, NoId, <<>>, <<>>)
  /\ UNCHANGED <<files, chunk_to_datanodes, chunk_counter, cache_list, now,
                 generated, issued, allocLog>>

(* Variant: a heartbeat from an address that has no record is refused.    *)
Heartbeat_KnownOnly(address, stored_chunks, available_space, current_load) ==
  /\ IF address \in DOMAIN datanodes
       THEN /\ datanodes' = Put(datanodes, address,
                                [address |-> address, available_space |-> available_space,
                                 current_load |-> current_load,
                                 stored_chunks |-> Range(stored_chunks),
                                 last_heartbeat |-> now])
            /\ chunk_to_datanodes' = AddHolder(chunk_to_datanodes, stored_chunks, 1, address)
            /\ resp' = Reply("Heartbeat", "", 0, 0, "OK", TRUE, NoId, <<>>, <<>>)
       ELSE /\ resp' = Reply("Heartbeat", "", 0, 0, "OK", FALSE, NoId, <<>>, <<>>)
            /\ UNCHANGED <<datanodes, chunk_to_datanodes>>
  /\ UNCHANGED <<files, chunk_counter, cache_list, now, generated, issued, allocLog>>

Heartbeat(address, stored_chunks, available_space, current_load) ==
  /\ datanodes' = Put(datanodes, address,
                      [address |-> address, available_space |-> available_space,
                       current_load |-> current_load,
                       stored_chunks |-> Range(stored_chunks),
                       last_heartbeat |-> now])
  /\ chunk_to_datanodes' = AddHolder(chunk_to_datanodes, stored_chunks, 1, address)
  /\ resp' = Reply("Heartbeat", "", 0, 0, "OK", TRUE, NoId, <<>>, <<>>)
  /\ UNCHANGED <<files, chunk_counter, cache_list, now, generated, issued, allocLog>>

AllocateChunkLocation(filename, chunk_index, chunk_size) ==
  /\ LET chunk_id == generateChunkId(filename, chunk_index, chunk_counter)
         swept    == cleanupStaleDataNodes(datanodes, now)
     IN  \E order \in Perms(DOMAIN swept) :
           LET selected_node == selectDataNodeForChunk(swept, order, chunk_size)
           IN  /\ chunk_counter' = chunk_counter + 1
               /\ generated' = generated \cup {chunk_id}
               /\ issued' = issued + 1
               /\ IF selected_node = NoAddr
                    THEN /\ datanodes' = swept
                         /\ resp' = AllocateReply(filename, chunk_index, chunk_size,
                                                  NoId, <<>>)
                         /\ UNCHANGED <<files, chunk_to_datanodes, allocLog>>
                    ELSE /\ files' = UpdateFileMeta(files, filename, chunk_index,
                                                    chunk_id, chunk_size, now)
                         /\ chunk_to_datanodes' =
                              Put(chunk_to_datanodes, chunk_id, <<selected_node>>)
                         /\ datanodes' = ReserveOnNode(swept, selected_node, chunk_size)
                         /\ resp' = AllocateReply(filename, chunk_index, chunk_size,
                                                  chunk_id, <<selected_node>>)
                         /\ allocLog' = Put(allocLog, <<filename, chunk_index>>,
                                            [chunk_id |-> chunk_id,
                                             address |-> selected_node])
  /\ UNCHANGED <<cache_list, now>>

GetFileLocation(filename) ==
  LET r == getFileLocation(files, filename, cache_list, CacheCapacity,
                           chunk_to_datanodes, datanodes, now)
  IN  /\ cache_list' = r.cache
      /\ resp' = LocationReply(filename, r.locations)
      /\ UNCHANGED <<datanodes, files, chunk_to_datanodes, chunk_counter, now,
                     generated, issued, allocLog>>

Tick ==
  /\ now + TickStep <= MaxTime
  /\ now' = now + TickStep
  /\ UNCHANGED <<datanodes, files, chunk_to_datanodes, chunk_counter, cache_list,
                 resp, generated, issued, allocLog>>

(* ----------------- the coordinator with serial handlers ---------------- *)

(* One more RPC is taken up by the server. *)
Handled == ops < MaxOps /\ ops' = ops + 1 /\ UNCHANGED <<probe, client, uploads, th, beat, cacheVars, storageVars, dl, procVars>>

RegisterRPC ==
  Handled /\ \E a \in Addrs, s \in SpaceVals : RegisterDataNode(a, s)

HeartbeatRPC ==
  Handled /\ \E a \in Addrs, s \in SpaceVals, l \in LoadVals :
               \E ids \in HeartbeatLists(a) : Heartbeat(a, ids, s, l)

AllocateRPC ==
  /\ Handled
  /\ chunk_counter < MaxAlloc
  /\ \E f \in Files, i \in 0..MaxIndex, s \in SizeVals : AllocateChunkLocation(f, i, s)

LocateRPC ==
  Handled /\ \E f \in Files : GetFileLocation(f)

Elapse == Tick /\ UNCHANGED <<ops, probe, client, uploads, th, beat, cacheVars, storageVars, dl, procVars>>

Next == RegisterRPC \/ HeartbeatRPC \/ AllocateRPC \/ LocateRPC \/ Elapse

Spec == Init /\ [][Next]_vars

(* ------------- selectDataNodeForChunk as a function of its inputs ------ *)

ProbeAddrs == {"A", "B", "C"}

ProbeSpaces == 0..2

ProbeLoads == {0, 1, INT32_MAX}

ProbeSizes == 0..2

ProbeTime == 61

ProbeBeats == {0, 1}

ProbeStates(a) ==
  [address : {a}, available_space : ProbeSpaces, current_load : ProbeLoads,
   stored_chunks : {{}}, last_heartbeat : ProbeBeats]

ProbeTables ==
  UNION {[D -> UNION {ProbeStates(a) : a \in D}] : D \in SUBSET ProbeAddrs}

InitSelect ==
  /\ datanodes \in {t \in ProbeTables : \A a \in DOMAIN t : t[a].address = a}
  /\ now = ProbeTime
  /\ probe \in [chunk_size : ProbeSizes, done : {FALSE}, result : {NoAddr}]
  /\ dl = NoDownload
  /\ client = NoClient
  /\ uploads = <<>>
  /\ th = [t \in Threads |-> IdleThread]
  /\ beat = NoBeat
  /\ IdleCache
  /\ IdleStorage
  /\ IdleProcess
  /\ files = <<>>
  /\ chunk_to_datanodes = <<>>
  /\ chunk_counter = 0
  /\ cache_list = <<>>
  /\ resp = Reply("none", "", 0, 0, "OK", FALSE, NoId, <<>>, <<>>)
  /\ generated = {}
  /\ issued = 0
  /\ ops = 0
  /\ allocLog = <<>>

(* One call of selectDataNodeForChunk(probe.chunk_size): the sweep, then   *)
(* the selection over the remaining table in some iteration order.         *)
ApplySelect ==
  /\ ~probe.done
  /\ LET swept == cleanupStaleDataNodes(datanodes, now)
     IN  \E order \in Perms(DOMAIN swept) :
           /\ datanodes' = swept
           /\ probe' = [probe EXCEPT !.done = TRUE,
                          !.result = selectDataNodeForChunk(swept, order, probe.chunk_size)]
  /\ UNCHANGED <<files, chunk_to_datanodes, chunk_counter, cache_list, now, resp,
                 generated, issued, ops, allocLog, client, uploads, th, beat, cacheVars,
                 storageVars, dl, procVars>>

NextSelect == ApplySelect

SpecSelect == InitSelect /\ [][NextSelect]_vars

(* --------------- the load-balancing scenario of the tests -------------- *)
(* MetaServerTest.LoadBalancingWithMultipleDataNodes: three registrations, *)
(* then ten allocations of 1 MiB; sizes in MiB.                            *)

BalanceSpaceA == 5120

BalanceSpaceB == 10240

BalanceSpaceC == 3072

BalanceAllocations == 10

BalanceChunk == 1

BalanceNodes == <<"A", "B", "C">>

BalanceSpaces == <<BalanceSpaceA, BalanceSpaceB, BalanceSpaceC>>

BalanceRegister ==
  /\ Cardinality(DOMAIN datanodes) < Len(BalanceNodes)
  /\ LET k == Cardinality(DOMAIN datanodes) + 1
     IN  RegisterDataNode(BalanceNodes[k], BalanceSpaces[k])
  /\ UNCHANGED <<ops, probe, client, uploads, th, beat, cacheVars, storageVars, dl, procVars>>

BalanceAllocate ==
  /\ DOMAIN datanodes = Range(BalanceNodes)
  /\ issued < BalanceAllocations
  /\ \E f \in Files : AllocateChunkLocation(f, issued, BalanceChunk)
  /\ UNCHANGED <<ops, probe, client, uploads, th, beat, cacheVars, storageVars, dl, procVars>>

(* The whole scenario runs while no registration is older than 60 s.       *)
BalanceElapse ==
  /\ now + TickStep <= STALE_TIMEOUT
  /\ Tick
  /\ UNCHANGED <<ops, probe, client, uploads, th, beat, cacheVars, storageVars, dl, procVars>>

NextBalance == BalanceRegister \/ BalanceAllocate \/ BalanceElapse

SpecBalance == Init /\ [][NextBalance]_vars

(* ------------------- the client's upload of a file --------------------- *)
(* MiniDfsClient::UploadFile asks for one allocation per chunk, index 0    *)
(* upwards, and gives up at the first refusal.                             *)

NoUpload == [latest |-> <<>>, complete |-> FALSE, times |-> 0]

UploadOf(f) == IF f \in DOMAIN uploads THEN uploads[f] ELSE NoUpload

StartUpload(f, n) ==
  /\ ~client.busy
  /\ chunk_counter + n <= MaxAlloc
  /\ client' = [busy |-> TRUE, file |-> f, n |-> n, i |-> 0]
  /\ uploads' = Put(uploads, f, [UploadOf(f) EXCEPT !.latest = <<>>, !.complete = FALSE])
  /\ UNCHANGED <<datanodes, files, chunk_to_datanodes, chunk_counter, cache_list, now,
                 resp, generated, issued, ops, allocLog, probe, th, beat, cacheVars,
                 storageVars, dl, procVars>>

UploadChunk ==
  /\ client.busy
  /\ AllocateChunkLocation(client.file, client.i, BalanceChunk)
  /\ IF resp'.status = "OK"
       THEN /\ client' = IF client.i + 1 = client.n THEN NoClient
                         ELSE [client EXCEPT !.i = @ + 1]
            /\ uploads' = [uploads EXCEPT
                             ![client.file].latest = Append(@, resp'.chunk_id),
                             ![client.file].complete = (client.i + 1 = client.n),
                             ![client.file].times =
                               IF client.i + 1 = client.n THEN @ + 1 ELSE @]
       ELSE /\ client' = NoClient
            /\ UNCHANGED uploads
  /\ UNCHANGED <<ops, probe, th, beat, cacheVars, storageVars, dl, procVars>>

(* The storage nodes register when they start, before the client runs.    *)
UploadRegister ==
  /\ uploads = <<>>
  /\ \E a \in Addrs, s \in SpaceVals : RegisterDataNode(a, s)
  /\ UNCHANGED <<ops, probe, client, uploads, th, beat, cacheVars, storageVars, dl, procVars>>

UploadLocate ==
  /\ \E f \in Files : GetFileLocation(f)
  /\ UNCHANGED <<ops, probe, client, uploads, th, beat, cacheVars, storageVars, dl, procVars>>

NextUpload ==
  \/ \E f \in Files, n \in 1..MaxChunks : StartUpload(f, n)
  \/ UploadChunk
  \/ UploadRegister
  \/ UploadLocate
  \/ Elapse

SpecUpload == Init /\ [][NextUpload]_vars

(* ----------------- the coordinator with handler threads ---------------- *)
(* Each step is one lock_guard block (or the atomic fetch_add) of a        *)
(* handler; the blocks of different threads interleave freely.             *)

(* generateChunkId: the fetch_add on chunk_counter.                        *)
AllocGenerate(t, filename, chunk_index, chunk_size) ==
  /\ th[t].pc = "idle"
  /\ chunk_counter < MaxAlloc
  /\ LET chunk_id == generateChunkId(filename, chunk_index, chunk_counter)
     IN  /\ chunk_counter' = chunk_counter + 1
         /\ generated' = generated \cup {chunk_id}
         /\ issued' = issued + 1
         /\ th' = [th EXCEPT ![t] = [pc |-> "select", filename |-> filename,
                                     chunk_index |-> chunk_index,
                                     chunk_size |-> chunk_size,
                                     chunk_id |-> chunk_id,
                                     selected_node |-> NoAddr]]
  /\ UNCHANGED <<datanodes, files, chunk_to_datanodes, cache_list, now, resp, ops,
                 allocLog, probe, client, uploads, beat, cacheVars, storageVars, dl, procVars>>

(* selectDataNodeForChunk under datanodes_mutex; an empty result returns.  *)
AllocSelect(t) ==
  /\ th[t].pc = "select"
  /\ LET swept == cleanupStaleDataNodes(datanodes, now)
     IN  \E order \in Perms(DOMAIN swept) :
           LET selected_node == selectDataNodeForChunk(swept, order, th[t].chunk_size)
           IN  /\ datanodes' = swept
               /\ IF selected_node = NoAddr
                    THEN /\ th' = [th EXCEPT ![t] = IdleThread]
                         /\ resp' = AllocateReply(th[t].filename, th[t].chunk_index,
                                                  th[t].chunk_size, NoId, <<>>)
                    ELSE /\ th' = [th EXCEPT ![t].pc = "files",
                                             ![t].selected_node = selected_node]
                         /\ UNCHANGED resp
  /\ UNCHANGED <<files, chunk_to_datanodes, chunk_counter, cache_list, now, generated,
                 issued, ops, allocLog, probe, client, uploads, beat, cacheVars, storageVars, dl, procVars>>

(* The files_mutex block.                                                  *)
AllocFiles(t) ==
  /\ th[t].pc = "files"
  /\ files' = UpdateFileMeta(files, th[t].filename, th[t].chunk_index, th[t].chunk_id,
                             th[t].chunk_size, now)
  /\ th' = [th EXCEPT ![t].pc = "chunks"]
  /\ UNCHANGED <<datanodes, chunk_to_datanodes, chunk_counter, cache_list, now, resp,
                 generated, issued, ops, allocLog, probe, client, uploads, beat, cacheVars, storageVars, dl, procVars>>

(* The chunks_mutex block.                                                 *)
AllocChunks(t) ==
  /\ th[t].pc = "chunks"
  /\ chunk_to_datanodes' = Put(chunk_to_datanodes, th[t].chunk_id, <<th[t].selected_node>>)
  /\ th' = [th EXCEPT ![t].pc = "nodes"]
  /\ UNCHANGED <<datanodes, files, chunk_counter, cache_list, now, resp, generated,
                 issued, ops, allocLog, probe, client, uploads, beat, cacheVars, storageVars, dl, procVars>>

(* The last datanodes_mutex block, and the return.                         *)
AllocNodes(t) ==
  /\ th[t].pc = "nodes"
  /\ datanodes' = ReserveOnNode(datanodes, th[t].selected_node, th[t].chunk_size)
  /\ resp' = AllocateReply(th[t].filename, th[t].chunk_index, th[t].chunk_size,
                           th[t].chunk_id, <<th[t].selected_node>>)
  /\ allocLog' = Put(allocLog, <<th[t].filename, th[t].chunk_index>>,
                     [chunk_id |-> th[t].chunk_id, address |-> th[t].selected_node])
  /\ th' = [th EXCEPT ![t] = IdleThread]
  /\ UNCHANGED <<files, chunk_to_datanodes, chunk_counter, cache_list, now, generated,
                 issued, ops, probe, client, uploads, beat, cacheVars, storageVars, dl, procVars>>

ConcFiles == {"f"}

ConcIndexes == {0, 1}

ConcSizes == {1}

AllocCall ==
  \E t \in Threads, f \in ConcFiles, i \in ConcIndexes, s \in ConcSizes :
    AllocGenerate(t, f, i, s)

AllocStepSelect == \E t \in Threads : AllocSelect(t)

AllocStepFiles == \E t \in Threads : AllocFiles(t)

AllocStepChunks == \E t \in Threads : AllocChunks(t)

AllocStepNodes == \E t \in Threads : AllocNodes(t)

ConcRegister ==
  /\ \E a \in Addrs, s \in SpaceVals : RegisterDataNode(a, s)
  /\ UNCHANGED <<ops, probe, client, uploads, th, beat, cacheVars, storageVars, dl, procVars>>

NextConc ==
  \/ AllocCall
  \/ AllocStepSelect
  \/ AllocStepFiles
  \/ AllocStepChunks
  \/ AllocStepNodes
  \/ ConcRegister

ConcSpec == Init /\ [][NextConc]_vars

(* ---------------- heartbeats with arbitrary chunk lists ----------------- *)

BeatLoads == {5}

(* The ids a heartbeat may report: every id placed so far, on any node,    *)
(* and one the coordinator never issued.                                   *)
BeatIds == DOMAIN chunk_to_datanodes \cup {ForeignId}

(* stored_chunk_ids of a heartbeat: empty, one id, or two ids, the same id *)
(* twice included.                                                         *)
BeatLists ==
  {<<>>} \cup {<<x>> : x \in BeatIds} \cup {<<x, y>> : x \in BeatIds, y \in BeatIds}

BeatHandled ==
  /\ ops < MaxOps
  /\ ops' = ops + 1
  /\ UNCHANGED <<probe, client, uploads, th, cacheVars, storageVars, dl, procVars>>

BeatRegister ==
  /\ BeatHandled
  /\ \E a \in Addrs : RegisterDataNode(a, BalanceChunk)
  /\ UNCHANGED beat

BeatAllocate ==
  /\ BeatHandled
  /\ chunk_counter < MaxAlloc
  /\ \E f \in ConcFiles, i \in ConcIndexes, s \in ConcSizes :
       AllocateChunkLocation(f, i, s)
  /\ UNCHANGED beat

BeatHeartbeat ==
  /\ BeatHandled
  /\ \E a \in Addrs, s \in SpaceVals, l \in BeatLoads, ids \in BeatLists :
       /\ Heartbeat(a, ids, s, l)
       /\ beat' = [address |-> a, stored_chunks |-> ids,
                   available_space |-> s, current_load |-> l]

NextBeat == BeatRegister \/ BeatAllocate \/ BeatHeartbeat \/ Elapse

SpecBeat == Init /\ [][NextBeat]_vars

(* --------- heartbeats that report ids of an earlier coordinator -------- *)
(* A node reports the ids of the files in its directory.  The counter of   *)
(* generateChunkId starts at 0 in every coordinator process, so a node can *)
(* hold, from an earlier coordinator or from a client that stored it, an   *)
(* id that this coordinator issues next.                                   *)
GrowIds ==
  DOMAIN chunk_to_datanodes \cup {generateChunkId(f, 0, chunk_counter) : f \in ConcFiles}

GrowHeartbeat ==
  /\ BeatHandled
  /\ \E a \in Addrs, ids \in {<<>>} \cup {<<x>> : x \in GrowIds} :
       /\ Heartbeat(a, ids, BalanceChunk, 0)
       /\ beat' = [address |-> a, stored_chunks |-> ids,
                   available_space |-> BalanceChunk, current_load |-> 0]

GrowAllocate ==
  /\ BeatHandled
  /\ chunk_counter < MaxAlloc
  /\ \E f \in ConcFiles, s \in ConcSizes : AllocateChunkLocation(f, 0, s)
  /\ UNCHANGED beat

NextGrow == BeatRegister \/ GrowAllocate \/ GrowHeartbeat \/ Elapse

SpecGrow == Init /\ [][NextGrow]_vars

(* --------------------------- the cache alone --------------------------- *)

CacheIds == {<<1>>, <<2>>, <<3>>, <<4>>}

CacheValues(id) == {[chunk_id |-> id, datanode_addresses |-> <<a>>] : a \in Addrs}

(* The capacities the cache under test is constructed with.                *)
CacheCaps == {0, 1, 3}

(* Cache::Cache: a capacity of zero becomes one.                           *)
CacheCtor(capacity) == IF capacity = 0 THEN 1 ELSE capacity

(* The calls of CacheTest.LRUOrderingWithGet, in order.                    *)
Script ==
  << [op |-> "put", chunk_id |-> <<1>>], [op |-> "put", chunk_id |-> <<2>>],
     [op |-> "put", chunk_id |-> <<3>>], [op |-> "get", chunk_id |-> <<1>>],
     [op |-> "put", chunk_id |-> <<4>>] >>

(* The history after a call: a use (a put, or a get that hits) moves the   *)
(* id to the front of the order; the scenario advances while the calls     *)
(* made since construction are exactly its calls.                          *)
Recorded(h, op, id, used) ==
  [h EXCEPT
     !.order  = IF used THEN <<id>> \o SelectSeq(h.order, LAMBDA x : x # id) ELSE @,
     !.script = IF h.on /\ h.script < Len(Script)
                        /\ Script[h.script + 1] = [op |-> op, chunk_id |-> id]
                  THEN @ + 1 ELSE @,
     !.on     = /\ h.on /\ h.script < Len(Script)
                /\ Script[h.script + 1] = [op |-> op, chunk_id |-> id]]

InitCache ==
  /\ IdleCoordinator
  /\ IdleStorage
  /\ IdleProcess
  /\ cres = NoCacheCall
  /\ \E capacity \in CacheCaps :
       /\ cache_capacity = CacheCtor(capacity)
       /\ chist = NoCacheHistory(capacity)

CacheFrame ==
  UNCHANGED <<datanodes, files, chunk_to_datanodes, chunk_counter, now, resp, generated,
              issued, ops, allocLog, probe, client, uploads, th, beat, cache_capacity,
              storageVars, dl, procVars>>

PutCall(t, id, location) ==
  /\ cache_list' = CachePut(cache_list, cache_capacity, id, location)
  /\ cres' = [NoCacheCall EXCEPT !.op = "put", !.chunk_id = id, !.thread = t,
                                 !.value = location]
  /\ chist' = Recorded(chist, "put", id, TRUE)
  /\ CacheFrame

GetCall(t, id) ==
  LET cached == CacheGet(cache_list, id)
  IN  /\ cache_list' = cached.cache
      /\ cres' = [NoCacheCall EXCEPT !.op = "get", !.chunk_id = id, !.thread = t,
                                     !.hit = cached.hit, !.value = cached.value]
      /\ chist' = Recorded(chist, "get", id, cached.hit)
      /\ CacheFrame

RemoveCall(t, id) ==
  /\ cache_list' = CacheWithout(cache_list, id)
  /\ cres' = [NoCacheCall EXCEPT !.op = "remove", !.chunk_id = id, !.thread = t]
  /\ chist' = Recorded(chist, "remove", id, FALSE)
  /\ CacheFrame

ClearCall(t) ==
  /\ cache_list' = <<>>
  /\ cres' = [NoCacheCall EXCEPT !.op = "clear", !.thread = t]
  /\ chist' = Recorded(chist, "clear", NoId, FALSE)
  /\ CacheFrame

SizeCall(t) ==
  /\ cres' = [NoCacheCall EXCEPT !.op = "size", !.thread = t, !.size = Len(cache_list)]
  /\ chist' = Recorded(chist, "size", NoId, FALSE)
  /\ UNCHANGED cache_list
  /\ CacheFrame

(* Every call holds cache_mutex from its first statement to its return, so *)
(* the calls of the threads interleave as whole calls.                     *)
CachePutStep == \E t \in Threads, id \in CacheIds : \E v \in CacheValues(id) : PutCall(t, id, v)

CacheGetStep == \E t \in Threads, id \in CacheIds : GetCall(t, id)

CacheRemoveStep == \E t \in Threads, id \in CacheIds : RemoveCall(t, id)

CacheClearStep == \E t \in Threads : ClearCall(t)

CacheSizeStep == \E t \in Threads : SizeCall(t)

NextCache ==
  CachePutStep \/ CacheGetStep \/ CacheRemoveStep \/ CacheClearStep \/ CacheSizeStep

SpecCache == InitCache /\ [][NextCache]_vars

(* -------------------------- the storage node --------------------------- *)
(* A chunk's data file and sidecar are keyed by the chunk id: getChunkPath *)
(* puts the id into the file name, so different ids have different paths.  *)

StoreIds == {<<1>>, <<2>>}

(* Byte sequences of length 0, 1 and 2.                                    *)
DataVals == {<<>>, <<1>>, <<2>>, <<1, 2>>, <<2, 1>>}

(* An empty checksum string (no sidecar was found when the table was       *)
(* rebuilt).                                                               *)
NoDigest == 0

(* calculateChecksum: the SHA-256 digest, here a number that differs for   *)
(* different byte sequences of the sizes modelled and is never NoDigest.   *)
RECURSIVE calculateChecksum(_)
calculateChecksum(data) ==
  IF data = <<>> THEN 1 ELSE 3 * calculateChecksum(Tail(data)) + Head(data)

(* Variant: the digest is not compared.                                    *)
verifyChecksum_Skip(table, chunk_id, data) == TRUE

verifyChecksum(table, chunk_id, data) ==
  IF chunk_id \notin DOMAIN table \/ table[chunk_id].checksum = NoDigest
    THEN TRUE
    ELSE calculateChecksum(data) = table[chunk_id].checksum

(* Variant: an existing data file is kept as it is.                        *)
WriteFile_KeepOld(dsk, chunk_id, data) ==
  IF chunk_id \in DOMAIN dsk THEN dsk ELSE Put(dsk, chunk_id, data)

(* std::ofstream(chunk_path, binary | trunc), write, flush, close.         *)
WriteFile(dsk, chunk_id, data) == Put(dsk, chunk_id, data)

(* Variant: no capacity check.                                             *)
Fits_NoCheck(used, size, capacity) == TRUE

(* The capacity check at the head of storeChunk.                           *)
Fits(used, size, capacity) == ~(used + size > capacity)

(* The metadata_mutex block of storeChunk: the new used_space.             *)
UsedAfterStore(table, used, chunk_id, size) ==
  (IF chunk_id \in DOMAIN table THEN used - table[chunk_id].size ELSE used) + size

(* Variant: the size of the deleted chunk is not given back.              *)
UsedAfterDelete_Keep(table, used, chunk_id) == used

(* The metadata_mutex block of deleteChunk: the new used_space.            *)
UsedAfterDelete(table, used, chunk_id) ==
  IF chunk_id \in DOMAIN table THEN used - table[chunk_id].size ELSE used

(* getStoredChunkIds: the ids a heartbeat reports.                         *)
getStoredChunkIds(table) == DOMAIN table

(* readChunk on the files `dsk` and the table: the bytes returned.         *)
readChunk(dsk, table, chunk_id) ==
  IF chunk_id \notin DOMAIN dsk THEN <<>>
  ELSE IF ~verifyChecksum(table, chunk_id, dsk[chunk_id]) THEN <<>>
  ELSE dsk[chunk_id]

hasChunk(table, chunk_id) == chunk_id \in DOMAIN table

RECURSIVE SumSizes(_, _)
SumSizes(f, S) ==
  IF S = {} THEN 0
  ELSE LET x == CHOOSE y \in S : TRUE IN Len(f[x]) + SumSizes(f, S \ {x})

(* Variant: data files of zero length are not registered.                  *)
loadExistingChunks_SkipEmpty(dsk, side) ==
  [id \in {x \in DOMAIN dsk : dsk[x] # <<>>} |->
     [size     |-> Len(dsk[id]),
      checksum |-> IF id \in DOMAIN side THEN side[id].checksum ELSE NoDigest]]

(* loadExistingChunks: the table built from the .chunk and .meta files.    *)
loadExistingChunks(dsk, side) ==
  [id \in DOMAIN dsk |->
     [size     |-> Len(dsk[id]),
      checksum |-> IF id \in DOMAIN side THEN side[id].checksum ELSE NoDigest]]

StorageCall(op, chunk_id, data, ok, out) ==
  [op |-> op, chunk_id |-> chunk_id, data |-> data, ok |-> ok, out |-> out]

StorageFrame == UNCHANGED <<coordVars, cacheVars, total_capacity, st, procVars>>

(* storeChunk(chunk_id, data) from entry to return, on the storage node.   *)
StoreEffect(chunk_id, data) ==
  IF Fits(used_space, Len(data), total_capacity)
     THEN /\ disk' = WriteFile(disk, chunk_id, data)
          /\ sidecar' = Put(sidecar, chunk_id,
                            [checksum |-> calculateChecksum(data), size |-> Len(data)])
          /\ chunk_metadata' = Put(chunk_metadata, chunk_id,
                                   [size |-> Len(data),
                                    checksum |-> calculateChecksum(data)])
          /\ used_space' = UsedAfterStore(chunk_metadata, used_space, chunk_id, Len(data))
          /\ dres' = StorageCall("storeChunk", chunk_id, data, TRUE, <<>>)
     ELSE /\ dres' = StorageCall("storeChunk", chunk_id, data, FALSE, <<>>)
          /\ UNCHANGED <<disk, sidecar, chunk_metadata, used_space>>

(* storeChunk(chunk_id, data), run alone.                                  *)
StoreCall(chunk_id, data) == StoreEffect(chunk_id, data) /\ StorageFrame

(* readChunk(chunk_id), run alone; last_accessed is not modelled.          *)
ReadCall(chunk_id) ==
  /\ dres' = StorageCall("readChunk", chunk_id, <<>>,
                         readChunk(disk, chunk_metadata, chunk_id) # <<>>,
                         readChunk(disk, chunk_metadata, chunk_id))
  /\ UNCHANGED <<disk, sidecar, chunk_metadata, used_space>>
  /\ StorageFrame

(* deleteChunk(chunk_id), run alone.                                       *)
DeleteCall(chunk_id) ==
  /\ disk' = Remove(disk, {chunk_id})
  /\ sidecar' = Remove(sidecar, {chunk_id})
  /\ IF chunk_id \in DOMAIN disk
       THEN /\ chunk_metadata' = Remove(chunk_metadata, {chunk_id})
            /\ used_space' = UsedAfterDelete(chunk_metadata, used_space, chunk_id)
            /\ dres' = StorageCall("deleteChunk", chunk_id, <<>>, TRUE, <<>>)
       ELSE /\ dres' = StorageCall("deleteChunk", chunk_id, <<>>, FALSE, <<>>)
            /\ UNCHANGED <<chunk_metadata, used_space>>
  /\ StorageFrame

(* DataNodeServiceImpl::ReadChunk: NOT_FOUND when readChunk gave no bytes. *)
ReadChunkRPC(chunk_id) ==
  LET data == readChunk(disk, chunk_metadata, chunk_id)
  IN  /\ dres' = StorageCall(IF data # <<>> THEN "ReadChunk:OK" ELSE "ReadChunk:NOT_FOUND",
                             chunk_id, <<>>, data # <<>>, data)
      /\ UNCHANGED <<disk, sidecar, chunk_metadata, used_space>>
      /\ StorageFrame

(* The engine is destroyed and constructed again over the same directory.  *)
Rebuild ==
  /\ chunk_metadata' = loadExistingChunks(disk, sidecar)
  /\ used_space' = SumSizes(disk, DOMAIN disk)
  /\ dres' = StorageCall("DataNodeStorage", NoId, <<>>, TRUE, <<>>)
  /\ UNCHANGED <<disk, sidecar>>
  /\ StorageFrame

(* Outside the program: the bytes of a data file change, its length stays. *)
Corrupt(chunk_id) ==
  /\ chunk_id \in DOMAIN disk
  /\ \E data \in DataVals :
       /\ Len(data) = Len(disk[chunk_id])
       /\ data # disk[chunk_id]
       /\ disk' = Put(disk, chunk_id, data)
  /\ dres' = StorageCall("corrupt", chunk_id, <<>>, TRUE, <<>>)
  /\ UNCHANGED <<sidecar, chunk_metadata, used_space>>
  /\ StorageFrame

InitStore ==
  /\ IdleCoordinator
  /\ IdleCache
  /\ IdleStorage
  /\ IdleProcess

StoreStep == \E id \in StoreIds, data \in DataVals : StoreCall(id, data)

ReadStep == \E id \in StoreIds : ReadCall(id)

DeleteStep == \E id \in StoreIds : DeleteCall(id)

ReadRPCStep == \E id \in StoreIds : ReadChunkRPC(id)

CorruptStep == \E id \in StoreIds : Corrupt(id)

NextStore == StoreStep \/ ReadStep \/ DeleteStep \/ ReadRPCStep \/ Rebuild \/ CorruptStep

SpecStore == InitStore /\ [][NextStore]_vars

(* ----------------- the storage node, calls interleaved ----------------- *)

(* Two RPC handler threads run storeChunk and deleteChunk on the same      *)
(* engine.  A step is one access to what the threads share: the atomic     *)
(* used_space, a file of the directory tree, or the block that holds       *)
(* metadata_mutex.  Writing a data file (open, write, flush, close) is     *)
(* taken as one step.                                                      *)
StorageThread(pc, op, chunk_id, data, removed) ==
  [pc |-> pc, op |-> op, chunk_id |-> chunk_id, data |-> data, removed |-> removed]

ConcStoreFrame == UNCHANGED <<coordVars, cacheVars, total_capacity, procVars>>

(* storeChunk, lines 104-108: the capacity check.                          *)
StoreCheck(t, chunk_id, data) ==
  /\ st[t].pc = "idle"
  /\ IF Fits(used_space, Len(data), total_capacity)
       THEN /\ st' = [st EXCEPT ![t] = StorageThread("file", "storeChunk", chunk_id, data, FALSE)]
            /\ UNCHANGED dres
       ELSE /\ dres' = StorageCall("storeChunk", chunk_id, data, FALSE, <<>>)
            /\ UNCHANGED st
  /\ UNCHANGED <<disk, sidecar, chunk_metadata, used_space>>
  /\ ConcStoreFrame

(* storeChunk, lines 117-133: the data file.                               *)
StoreFile(t) ==
  /\ st[t].pc = "file"
  /\ disk' = WriteFile(disk, st[t].chunk_id, st[t].data)
  /\ st' = [st EXCEPT ![t].pc = "meta"]
  /\ UNCHANGED <<sidecar, chunk_metadata, used_space, dres>>
  /\ ConcStoreFrame

(* storeChunk, lines 136-146: the digest and the sidecar.                  *)
StoreSidecar(t) ==
  /\ st[t].pc = "meta"
  /\ sidecar' = Put(sidecar, st[t].chunk_id,
                    [checksum |-> calculateChecksum(st[t].data), size |-> Len(st[t].data)])
  /\ st' = [st EXCEPT ![t].pc = "table"]
  /\ UNCHANGED <<disk, chunk_metadata, used_space, dres>>
  /\ ConcStoreFrame

(* storeChunk, lines 149-171: the metadata_mutex block and the return.     *)
StoreTable(t) ==
  /\ st[t].pc = "table"
  /\ chunk_metadata' = Put(chunk_metadata, st[t].chunk_id,
                           [size |-> Len(st[t].data),
                            checksum |-> calculateChecksum(st[t].data)])
  /\ used_space' = UsedAfterStore(chunk_metadata, used_space, st[t].chunk_id, Len(st[t].data))
  /\ dres' = StorageCall("storeChunk", st[t].chunk_id, st[t].data, TRUE, <<>>)
  /\ st' = [st EXCEPT ![t] = IdleStorageThread]
  /\ UNCHANGED <<disk, sidecar>>
  /\ ConcStoreFrame

(* deleteChunk, line 220: fs::remove of the data file.                     *)
DeleteFile(t, chunk_id) ==
  /\ st[t].pc = "idle"
  /\ disk' = Remove(disk, {chunk_id})
  /\ st' = [st EXCEPT ![t] = StorageThread("unmeta", "deleteChunk", chunk_id, <<>>,
                                           chunk_id \in DOMAIN disk)]
  /\ UNCHANGED <<sidecar, chunk_metadata, used_space, dres>>
  /\ ConcStoreFrame

(* deleteChunk, line 221: fs::remove of the sidecar; lines 223, 235: the   *)
(* return of false when no data file was removed.                          *)
DeleteSidecar(t) ==
  /\ st[t].pc = "unmeta"
  /\ sidecar' = Remove(sidecar, {st[t].chunk_id})
  /\ IF st[t].removed
       THEN /\ st' = [st EXCEPT ![t].pc = "untable"]
            /\ UNCHANGED dres
       ELSE /\ st' = [st EXCEPT ![t] = IdleStorageThread]
            /\ dres' = StorageCall("deleteChunk", st[t].chunk_id, <<>>, FALSE, <<>>)
  /\ UNCHANGED <<disk, chunk_metadata, used_space>>
  /\ ConcStoreFrame

(* deleteChunk, lines 223-232: the metadata_mutex block and the return.    *)
DeleteTable(t) ==
  /\ st[t].pc = "untable"
  /\ chunk_metadata' = Remove(chunk_metadata, {st[t].chunk_id})
  /\ used_space' = UsedAfterDelete(chunk_metadata, used_space, st[t].chunk_id)
  /\ dres' = StorageCall("deleteChunk", st[t].chunk_id, <<>>, TRUE, <<>>)
  /\ st' = [st EXCEPT ![t] = IdleStorageThread]
  /\ UNCHANGED <<disk, sidecar>>
  /\ ConcStoreFrame

(* The byte sequences stored by the interleaved calls.                     *)
ConcDataVals == {<<1>>, <<1, 2>>}

StoreCheckStep ==
  \E t \in Threads, id \in StoreIds, data \in ConcDataVals : StoreCheck(t, id, data)

StoreFileStep == \E t \in Threads : StoreFile(t)

StoreSidecarStep == \E t \in Threads : StoreSidecar(t)

StoreTableStep == \E t \in Threads : StoreTable(t)

DeleteFileStep == \E t \in Threads, id \in StoreIds : DeleteFile(t, id)

DeleteSidecarStep == \E t \in Threads : DeleteSidecar(t)

DeleteTableStep == \E t \in Threads : DeleteTable(t)

NextConcStore ==
  \/ StoreCheckStep
  \/ StoreFileStep
  \/ StoreSidecarStep
  \/ StoreTableStep
  \/ DeleteFileStep
  \/ DeleteSidecarStep
  \/ DeleteTableStep

ConcStore == InitStore /\ [][NextConcStore]_vars

(* ---------------- a crash inside storeChunk, and restart --------------- *)
(* One thread stores; the process can die at any point of storeChunk, and  *)
(* is started again: the table is rebuilt by loadExistingChunks.  Here the *)
(* write of the data file is taken apart: the open with std::ios::trunc    *)
(* leaves a file of length 0, and the bytes reach the file in pieces.      *)

(* The byte sequences stored; none is a prefix of another.                 *)
CrashVals == {<<1, 2>>, <<2, 1>>}

CrashCheck(t) == \E id \in StoreIds, data \in CrashVals : StoreCheck(t, id, data)

(* Line 117: std::ofstream file(chunk_path, binary | trunc).               *)
StoreOpen(t) ==
  /\ st[t].pc = "file"
  /\ disk' = WriteFile(disk, st[t].chunk_id, <<>>)
  /\ st' = [st EXCEPT ![t].pc = "write"]
  /\ UNCHANGED <<sidecar, chunk_metadata, used_space, dres>>
  /\ ConcStoreFrame

(* Lines 123-124: file.write and file.flush; some more bytes are in the    *)
(* file.                                                                   *)
StoreWrite(t) ==
  /\ st[t].pc = "write"
  /\ \E n \in (Len(disk[st[t].chunk_id]) + 1)..Len(st[t].data) :
       /\ disk' = WriteFile(disk, st[t].chunk_id, SubSeq(st[t].data, 1, n))
       /\ st' = [st EXCEPT ![t].pc = IF n = Len(st[t].data) THEN "meta" ELSE "write"]
  /\ UNCHANGED <<sidecar, chunk_metadata, used_space, dres>>
  /\ ConcStoreFrame

(* The process dies inside storeChunk and is started again on the same     *)
(* directory: the constructor rebuilds the table and used_space.           *)
CrashRestart ==
  /\ \E t \in Threads : st[t].pc # "idle"
  /\ st' = [t \in Threads |-> IdleStorageThread]
  /\ chunk_metadata' = loadExistingChunks(disk, sidecar)
  /\ used_space' = SumSizes(disk, DOMAIN disk)
  /\ dres' = StorageCall("DataNodeStorage", NoId, <<>>, TRUE, <<>>)
  /\ UNCHANGED <<disk, sidecar>>
  /\ ConcStoreFrame

(* readChunk while no store is in progress.                                *)
CrashRead ==
  /\ \A t \in Threads : st[t].pc = "idle"
  /\ ReadStep

NextCrash ==
  \/ \E t \in Threads :
       \/ CrashCheck(t)
       \/ StoreOpen(t)
       \/ StoreWrite(t)
       \/ StoreSidecar(t)
       \/ StoreTable(t)
  \/ CrashRestart
  \/ CrashRead

SpecCrash == InitStore /\ [][NextCrash]_vars

(* ------------- threads that store chunks of their own ------------------ *)
(* StorageTest.ConcurrentOperations: every thread stores its chunks one    *)
(* after the other under ids no other thread uses, and reads each back     *)
(* after storing it.  st[t].chunk_id keeps the id of the round the thread  *)
(* is in; a thread whose storeChunk returns false or whose readChunk       *)
(* returns other bytes ends in "failed".                                   *)

(* Variant: the id leaves out the thread, so that threads share ids.       *)
WorkerId_Shared(t, i) == <<i>>

(* "thread_" + t + "_chunk_" + i.                                          *)
WorkerId(t, i) == <<t, i>>

(* The round thread t did last.                                            *)
WorkerRound(t) == IF st[t].chunk_id = NoId THEN 0 ELSE st[t].chunk_id[Len(st[t].chunk_id)]

(* The byte sequences thread t may store in round i.                       *)
WorkerVals(t, i) == {<<>>, <<t>>, <<t, i>>}

(* The bytes of the chunks stored so far and of those being stored.        *)
WorkerBytes ==
  SumSizes(disk, DOMAIN disk \ {st[u].chunk_id : u \in Threads})
    + SumSizes([u \in Threads |-> st[u].data], Threads)

(* The next storeChunk of thread t, up to the capacity check; the chunks   *)
(* of all threads together fit the capacity.                               *)
WorkerStore(t, data) ==
  /\ st[t].pc \in {"idle", "next"}
  /\ WorkerRound(t) < ChunksPerThread
  /\ WorkerBytes + Len(data) <= total_capacity
  /\ LET chunk_id == WorkerId(t, WorkerRound(t) + 1)
     IN  IF Fits(used_space, Len(data), total_capacity)
           THEN /\ st' = [st EXCEPT ![t] = StorageThread("file", "storeChunk", chunk_id,
                                                          data, FALSE)]
                /\ UNCHANGED dres
           ELSE /\ st' = [st EXCEPT ![t] = StorageThread("failed", "storeChunk", chunk_id,
                                                          data, FALSE)]
                /\ dres' = StorageCall("storeChunk", chunk_id, data, FALSE, <<>>)
  /\ UNCHANGED <<disk, sidecar, chunk_metadata, used_space>>
  /\ ConcStoreFrame

(* The metadata_mutex block of storeChunk and its return of true.          *)
WorkerTable(t) ==
  /\ st[t].pc = "table"
  /\ chunk_metadata' = Put(chunk_metadata, st[t].chunk_id,
                           [size |-> Len(st[t].data),
                            checksum |-> calculateChecksum(st[t].data)])
  /\ used_space' = UsedAfterStore(chunk_metadata, used_space, st[t].chunk_id, Len(st[t].data))
  /\ dres' = StorageCall("storeChunk", st[t].chunk_id, st[t].data, TRUE, <<>>)
  /\ st' = [st EXCEPT ![t].pc = "read"]
  /\ UNCHANGED <<disk, sidecar>>
  /\ ConcStoreFrame

(* readChunk of the chunk just stored, and the comparison of the test.     *)
WorkerRead(t) ==
  /\ st[t].pc = "read"
  /\ LET out == readChunk(disk, chunk_metadata, st[t].chunk_id)
     IN  /\ dres' = StorageCall("readChunk", st[t].chunk_id, <<>>, out # <<>>, out)
         /\ st' = [st EXCEPT ![t].pc = IF out # st[t].data THEN "failed"
                                       ELSE IF WorkerRound(t) < ChunksPerThread THEN "next"
                                       ELSE "done"]
  /\ UNCHANGED <<disk, sidecar, chunk_metadata, used_space>>
  /\ ConcStoreFrame

NextWorkers ==
  \E t \in Threads :
    \/ \E data \in WorkerVals(t, WorkerRound(t) + 1) : WorkerStore(t, data)
    \/ StoreFile(t)
    \/ StoreSidecar(t)
    \/ WorkerTable(t)
    \/ WorkerRead(t)

SpecWorkers == InitStore /\ [][NextWorkers]_vars

(* ---------- a client, the coordinator and one storage node ------------ *)

(* The address the storage node registers with.                            *)
NodeAddr == "A"

(* The contents of the one-chunk files the client uploads.                 *)
FileContents == {<<1>>, <<2>>}

(* DataNodeServiceImpl::ReadChunk as the client sees it: the status and    *)
(* the bytes of the reply.                                                 *)
ReadChunkReply(address, dsk, table, chunk_id) ==
  LET data == IF address = NodeAddr THEN readChunk(dsk, table, chunk_id) ELSE <<>>
  IN  [ok |-> data # <<>>, data |-> data]

(* DownloadFile, the loop over datanode_addresses of one chunk from        *)
(* position k on: the first reply that is OK and holds at least one byte.  *)
RECURSIVE FetchChunk(_, _, _, _)
FetchChunk(location, k, dsk, table) ==
  IF k > Len(location.datanode_addresses) THEN [ok |-> FALSE, data |-> <<>>]
  ELSE LET reply == ReadChunkReply(location.datanode_addresses[k], dsk, table,
                                   location.chunk_id)
       IN  IF reply.ok /\ Len(reply.data) > 0 THEN reply
           ELSE FetchChunk(location, k + 1, dsk, table)

(* DownloadFile, the loop over response.chunks() from position i on.       *)
RECURSIVE FetchChunks(_, _, _, _, _)
FetchChunks(chunks, i, dsk, table, bytes) ==
  IF i > Len(chunks) THEN [ok |-> TRUE, bytes |-> bytes]
  ELSE LET got == FetchChunk(chunks[i], 1, dsk, table)
       IN  IF got.ok THEN FetchChunks(chunks, i + 1, dsk, table, bytes \o got.data)
           ELSE [ok |-> FALSE, bytes |-> <<>>]

Downloaded(f, result, exists, bytes) ==
  [pc |-> "done", file |-> f, result |-> result, exists |-> exists, bytes |-> bytes]

(* The storage node registers with the coordinator when it starts.         *)
NodeRegister ==
  /\ NodeAddr \notin DOMAIN datanodes
  /\ \E s \in SpaceVals : RegisterDataNode(NodeAddr, s)
  /\ UNCHANGED <<ops, probe, client, uploads, th, beat, cacheVars, storageVars, dl, procVars>>

(* UploadFile of a file of zero bytes: the file is registered with one     *)
(* AllocateChunkLocation(name, 0, 0) and nothing is sent to a node.        *)
UploadEmpty(f) ==
  /\ chunk_counter < MaxAlloc
  /\ AllocateChunkLocation(f, 0, 0)
  /\ uploads' = Put(uploads, f, [NoUpload EXCEPT !.complete = (resp'.status = "OK")])
  /\ UNCHANGED <<ops, probe, client, th, beat, cacheVars, storageVars, dl, procVars>>

(* UploadFile of a file of one chunk: the allocation, then StoreChunk on   *)
(* the address returned.                                                   *)
UploadOne(f, data) ==
  /\ chunk_counter < MaxAlloc
  /\ AllocateChunkLocation(f, 0, Len(data))
  /\ IF resp'.status = "OK" /\ resp'.addresses = <<NodeAddr>>
       THEN /\ StoreEffect(resp'.chunk_id, data)
            /\ uploads' = Put(uploads, f, [NoUpload EXCEPT !.latest = <<resp'.chunk_id>>,
                                                           !.complete = dres'.ok])
       ELSE /\ uploads' = Put(uploads, f, NoUpload)
            /\ UNCHANGED <<disk, sidecar, chunk_metadata, used_space, dres>>
  /\ UNCHANGED <<ops, probe, client, th, beat, cacheVars, total_capacity, st, dl, procVars>>

(* DownloadFile(f): GetFileLocation, then ReadChunk for every chunk of the *)
(* response; the output file is removed when a chunk cannot be retrieved.  *)
Download(f) ==
  /\ dl.pc = "idle"
  /\ GetFileLocation(f)
  /\ LET fetched == FetchChunks(resp'.chunks, 1, disk, chunk_metadata, <<>>)
     IN  dl' = IF ~resp'.ok THEN Downloaded(f, "not found", FALSE, <<>>)
               ELSE IF Len(resp'.chunks) = 0 THEN Downloaded(f, "ok", TRUE, <<>>)
               ELSE IF fetched.ok THEN Downloaded(f, "ok", TRUE, fetched.bytes)
               ELSE Downloaded(f, "failed", FALSE, <<>>)
  /\ UNCHANGED <<ops, probe, client, uploads, th, beat, cacheVars, storageVars, procVars>>

(* The client process ends; the next download is a new process run in an   *)
(* empty directory.                                                        *)
DownloadExit ==
  /\ dl.pc = "done"
  /\ dl' = NoDownload
  /\ UNCHANGED <<datanodes, files, chunk_to_datanodes, chunk_counter, cache_list, now,
                 resp, generated, issued, ops, allocLog, probe, client, uploads, th, beat,
                 cacheVars, storageVars, procVars>>

UploadEmptyStep == \E f \in Files : UploadEmpty(f)

UploadOneStep == \E f \in Files, data \in FileContents : UploadOne(f, data)

DownloadStep == \E f \in Files : Download(f)

NextEmpty == NodeRegister \/ UploadEmptyStep \/ UploadOneStep \/ DownloadStep \/ DownloadExit

SpecEmpty == InitStore /\ [][NextEmpty]_vars

(* ------------------- cleanupOrphanedChunks ----------------------------- *)

(* The valid_chunks argument of cleanupOrphanedChunks.                     *)
ValidLists == {<<>>, << <<1>> >>, << <<2>> >>, << <<1>>, <<2>> >>}

CleanFrame == UNCHANGED <<coordVars, cacheVars, total_capacity, storage_load, loadCalls,
                          locks, hd, node>>

(* cleanupOrphanedChunks, lines 298-307: metadata_mutex is taken and the   *)
(* table is scanned, in the order the unordered_map gives, for the ids     *)
(* that are not in valid_chunks.                                           *)
CleanupScan(t, valid_chunks) ==
  /\ \A u \in Threads : st[u].pc = "idle"
  /\ metadata_mutex = 0
  /\ metadata_mutex' = t
  /\ \E to_delete \in Perms(DOMAIN chunk_metadata \ Range(valid_chunks)) :
       st' = [st EXCEPT ![t] = StorageThread("sweep", "cleanupOrphanedChunks", NoId,
                                            to_delete, FALSE)]
  /\ dres' = StorageCall("cleanupOrphanedChunks:call", NoId, valid_chunks, FALSE, <<>>)
  /\ UNCHANGED <<disk, sidecar, chunk_metadata, used_space>>
  /\ CleanFrame

(* The loop at lines 309-312 calls deleteChunk, which removes the data     *)
(* file and the sidecar (lines 220-221) and returns false when there was   *)
(* no data file (line 235).                                                *)
CleanupRemove(t) ==
  /\ st[t].pc = "sweep"
  /\ st[t].data # <<>>
  /\ LET chunk_id == Head(st[t].data)
     IN  /\ disk' = Remove(disk, {chunk_id})
         /\ sidecar' = Remove(sidecar, {chunk_id})
         /\ st' = IF chunk_id \in DOMAIN disk
                    THEN [st EXCEPT ![t].pc = "relock", ![t].chunk_id = chunk_id,
                                    ![t].removed = TRUE]
                    ELSE [st EXCEPT ![t].data = Tail(@)]
  /\ UNCHANGED <<chunk_metadata, used_space, dres, metadata_mutex>>
  /\ CleanFrame

(* deleteChunk, line 224: lock_guard on metadata_mutex, a std::mutex that  *)
(* the calling thread owns already.  The behaviour is undefined: the       *)
(* thread blocks for ever, or lock() throws std::system_error, which       *)
(* leaves cleanupOrphanedChunks through its own lock_guard.                *)
CleanupRelock(t) ==
  /\ st[t].pc = "relock"
  /\ metadata_mutex = t
  /\ \/ /\ st' = [st EXCEPT ![t].pc = "blocked"]
        /\ UNCHANGED <<metadata_mutex, dres>>
     \/ /\ st' = [st EXCEPT ![t] = IdleStorageThread]
        /\ metadata_mutex' = 0
        /\ dres' = StorageCall("cleanupOrphanedChunks:system_error", NoId, dres.data,
                               FALSE, <<>>)
  /\ UNCHANGED <<disk, sidecar, chunk_metadata, used_space>>
  /\ CleanFrame

(* cleanupOrphanedChunks, line 313: the loop is over, the lock is freed.   *)
CleanupReturn(t) ==
  /\ st[t].pc = "sweep"
  /\ st[t].data = <<>>
  /\ st' = [st EXCEPT ![t] = IdleStorageThread]
  /\ metadata_mutex' = 0
  /\ dres' = StorageCall("cleanupOrphanedChunks", NoId, dres.data, TRUE, <<>>)
  /\ UNCHANGED <<disk, sidecar, chunk_metadata, used_space>>
  /\ CleanFrame

(* A store made while no other call is in progress.                        *)
CleanStore ==
  /\ \A u \in Threads : st[u].pc = "idle"
  /\ metadata_mutex = 0
  /\ StoreStep

CleanupSteps ==
  \E t \in Threads : CleanupRemove(t) \/ CleanupRelock(t) \/ CleanupReturn(t)

NextClean ==
  \/ CleanStore
  \/ \E t \in Threads, valid_chunks \in ValidLists : CleanupScan(t, valid_chunks)
  \/ \E t \in Threads : CleanupRemove(t)
  \/ \E t \in Threads : CleanupRelock(t)
  \/ \E t \in Threads : CleanupReturn(t)

SpecClean == InitStore /\ [][NextClean]_vars

(* A thread that can take a step of cleanupOrphanedChunks takes it.        *)
FairClean == SpecClean /\ WF_vars(CleanupSteps)

(* ------------- the coordinator over an unbounded time ------------------ *)
(* Handlers are taken up without a budget, and time goes on for ever.  The *)
(* clock is read from an origin that moves once now would pass MaxTime:    *)
(* every time stamp kept moves back by TickStep instead, and a stamp that  *)
(* would fall before the origin (by then older than STALE_TIMEOUT) stays   *)
(* at the origin.                                                          *)
Earlier(t) == IF t >= TickStep THEN t - TickStep ELSE 0

LongFrame ==
  UNCHANGED <<ops, probe, client, uploads, th, beat, cacheVars, storageVars, dl, procVars>>

Pass ==
  /\ IF now + TickStep <= MaxTime
       THEN /\ now' = now + TickStep
            /\ UNCHANGED <<datanodes, files>>
       ELSE /\ now' = now
            /\ datanodes' = [a \in DOMAIN datanodes |->
                               [datanodes[a] EXCEPT !.last_heartbeat = Earlier(@)]]
            /\ files' = [f \in DOMAIN files |->
                           [files[f] EXCEPT !.created_at = Earlier(@)]]
  /\ UNCHANGED <<chunk_to_datanodes, chunk_counter, cache_list, resp, generated, issued,
                 allocLog>>
  /\ LongFrame

(* The storage node registers, with all of its capacity free.              *)
LongRegister == RegisterDataNode(NodeAddr, NodeCapacity) /\ LongFrame

LongAllocate ==
  /\ chunk_counter < MaxAlloc
  /\ \E f \in Files, s \in SizeVals : AllocateChunkLocation(f, 0, s)
  /\ LongFrame

LongLocate(f) == GetFileLocation(f) /\ LongFrame

NextLong ==
  \/ LongRegister
  \/ LongAllocate
  \/ \E f \in Files : LongLocate(f)
  \/ Pass

SpecLong == Init /\ [][NextLong]_vars

(* Time goes on, and the clients go on asking for every file.              *)
FairLong == SpecLong /\ WF_vars(Pass) /\ \A f \in Files : WF_vars(LongLocate(f))

(* ------------------- the locks of the coordinator ---------------------- *)
(* What each handler does with datanodes_mutex ("nodes"), files_mutex      *)
(* ("files"), chunks_mutex ("chunks") and cache_mutex ("cache"): the       *)
(* sequence of acquisitions and releases along each path through its code. *)
(* The tables are left out; each branch that depends on them is taken      *)
(* nondeterministically.                                                   *)
Acq(l) == [a |-> "acq", l |-> l]

Rel(l) == [a |-> "rel", l |-> l]

(* One block { std::lock_guard<std::mutex> lock(l); ... }.                 *)
Scope(l) == <<Acq(l), Rel(l)>>

registerDataNodeLocks == Scope("nodes")

(* Variant: the chunks_mutex block sits inside the datanodes_mutex block.  *)
updateDataNodeHeartbeatLocks_Nested ==
  <<Acq("nodes"), Acq("chunks"), Rel("chunks"), Rel("nodes")>>

(* Two blocks, one after the other.                                        *)
updateDataNodeHeartbeatLocks == Scope("nodes") \o Scope("chunks")

(* selectDataNodeForChunk; return if no node; files, chunks, nodes blocks. *)
allocateChunkLocationLocks(selected) ==
  IF selected
    THEN Scope("nodes") \o Scope("files") \o Scope("chunks") \o Scope("nodes")
    ELSE Scope("nodes")

getActiveDataNodesLocks == Scope("nodes")

(* The ways one chunk id of the list is handled by getFileLocation.        *)
LocateKinds == {"skip", "hit", "absent", "inactive", "found"}

(* skip: the id is empty.  hit: theCache->get finds it.  absent: a miss,   *)
(* and the id is not in chunk_to_datanodes.  inactive: a miss, the id is   *)
(* found, getActiveDataNodes is called inside the chunks_mutex block, no   *)
(* holder is active.  found: the same with an active holder, followed by   *)
(* theCache->put.                                                          *)
LocateChunkLocks(kind) ==
  CASE kind = "skip"     -> <<>>
    [] kind = "hit"      -> Scope("cache")
    [] kind = "absent"   -> Scope("cache") \o Scope("chunks")
    [] kind = "inactive" -> Scope("cache") \o <<Acq("chunks")>> \o getActiveDataNodesLocks
                              \o <<Rel("chunks")>>
    [] kind = "found"    -> Scope("cache") \o <<Acq("chunks")>> \o getActiveDataNodesLocks
                              \o <<Rel("chunks")>> \o Scope("cache")

RECURSIVE LocateLoopLocks(_)
LocateLoopLocks(kinds) ==
  IF kinds = <<>> THEN <<>>
  ELSE LocateChunkLocks(Head(kinds)) \o LocateLoopLocks(Tail(kinds))

(* The files_mutex block, a return if the file is unknown, then the loop.  *)
getFileLocationLocks(known, kinds) ==
  IF known THEN Scope("files") \o LocateLoopLocks(kinds) ELSE Scope("files")

(* The chunk lists of the files located: none, one or two ids.             *)
LocatePaths ==
  {<<>>} \cup {<<k>> : k \in LocateKinds}
         \cup {<<j, k>> : j \in LocateKinds, k \in LocateKinds}

LockFrame ==
  UNCHANGED <<coordVars, cacheVars, storageVars, storage_load, loadCalls,
              metadata_mutex, node>>

Enter(t, op, todo) ==
  /\ hd[t].op = "none"
  /\ hd' = [hd EXCEPT ![t] = [op |-> op, todo |-> todo]]
  /\ UNCHANGED locks
  /\ LockFrame

RegisterEnter(t) == Enter(t, "RegisterDataNode", registerDataNodeLocks)

HeartbeatEnter(t) == Enter(t, "Heartbeat", updateDataNodeHeartbeatLocks)

AllocateEnter(t) ==
  \E selected \in BOOLEAN :
    Enter(t, "AllocateChunkLocation", allocateChunkLocationLocks(selected))

LocateEnter(t) ==
  \E known \in BOOLEAN, kinds \in LocatePaths :
    Enter(t, "GetFileLocation", getFileLocationLocks(known, kinds))

(* The constructor of a lock_guard: the thread waits while the mutex is    *)
(* held.                                                                   *)
Acquire(t) ==
  /\ hd[t].todo # <<>>
  /\ Head(hd[t].todo).a = "acq"
  /\ locks[Head(hd[t].todo).l] = 0
  /\ locks' = [locks EXCEPT ![Head(hd[t].todo).l] = t]
  /\ hd' = [hd EXCEPT ![t].todo = Tail(@)]
  /\ LockFrame

(* The end of the block: the destructor of the lock_guard.                 *)
Release(t) ==
  /\ hd[t].todo # <<>>
  /\ Head(hd[t].todo).a = "rel"
  /\ locks' = [locks EXCEPT ![Head(hd[t].todo).l] = 0]
  /\ hd' = [hd EXCEPT ![t].todo = Tail(@)]
  /\ LockFrame

Return(t) ==
  /\ hd[t].op # "none"
  /\ hd[t].todo = <<>>
  /\ hd' = [hd EXCEPT ![t] = IdleHandler]
  /\ UNCHANGED locks
  /\ LockFrame

NextLocks ==
  \E t \in Threads :
    \/ RegisterEnter(t)
    \/ HeartbeatEnter(t)
    \/ AllocateEnter(t)
    \/ LocateEnter(t)
    \/ Acquire(t)
    \/ Release(t)
    \/ Return(t)

SpecLocks == Init /\ [][NextLocks]_vars

(* Fair scheduling: a handler that can go on does, and a handler that can  *)
(* take a mutex again and again gets it.                                   *)
FairLocks ==
  /\ SpecLocks
  /\ \A t \in Threads : WF_vars(Release(t) \/ Return(t)) /\ SF_vars(Acquire(t))

(* ------------- the load counter of the storage node ------------------ *)

(* Handler threads call incrementLoad and decrementLoad in any number and  *)
(* order.  current_load is a std::atomic<int32_t>: each step is one atomic *)
(* operation on it.                                                        *)
LoadFrame ==
  UNCHANGED <<coordVars, cacheVars, disk, sidecar, chunk_metadata, used_space,
              total_capacity, dres, metadata_mutex, locks, hd, node>>

(* incrementLoad: current_load++.                                          *)
incrementLoad(t) ==
  /\ st[t].pc = "idle"
  /\ loadCalls.inc < MaxCalls
  /\ storage_load' = storage_load + 1
  /\ loadCalls' = [loadCalls EXCEPT !.inc = @ + 1]
  /\ UNCHANGED st
  /\ LoadFrame

(* decrementLoad, line 272: the test current_load > 0.                     *)
decrementLoadTest(t) ==
  /\ st[t].pc = "idle"
  /\ loadCalls.dec < MaxCalls
  /\ loadCalls' = [loadCalls EXCEPT !.dec = @ + 1]
  /\ st' = IF storage_load > 0
             THEN [st EXCEPT ![t] = StorageThread("decrement", "decrementLoad", NoId,
                                                  <<>>, FALSE)]
             ELSE st
  /\ UNCHANGED storage_load
  /\ LoadFrame

(* decrementLoad, line 273: current_load--.                                *)
decrementLoadApply(t) ==
  /\ st[t].pc = "decrement"
  /\ storage_load' = storage_load - 1
  /\ st' = [st EXCEPT ![t] = IdleStorageThread]
  /\ UNCHANGED loadCalls
  /\ LoadFrame

getCurrentLoad == storage_load

NextLoad ==
  \/ \E t \in Threads : incrementLoad(t)
  \/ \E t \in Threads : decrementLoadTest(t)
  \/ \E t \in Threads : decrementLoadApply(t)

ConcLoad == InitStore /\ [][NextLoad]_vars

(* --------------------- the storage node process ------------------------ *)

(* runDataNode has built the engine, started the server and the heartbeat  *)
(* thread, installed the SIGINT handler and sits in server->Wait(), which  *)
(* returns once the server has been shut down.  Nothing in the program     *)
(* calls Shutdown on the server, so the lines after Wait() (running =      *)
(* false, join, return) have no step here: they cannot be reached.         *)
NodeFrame ==
  UNCHANGED <<ops, probe, client, uploads, th, beat, cacheVars, storageVars, dl,
              storage_load, loadCalls, metadata_mutex, locks, hd>>

getAvailableSpace == total_capacity - used_space

(* heartbeatThread, lines 73-89: the initial RegisterDataNode.             *)
HbRegister ==
  /\ node.hb = "register"
  /\ RegisterDataNode(NodeAddr, getAvailableSpace)
  /\ node' = [node EXCEPT !.hb = "loop"]
  /\ NodeFrame

(* Line 92: while (running.load()).                                        *)
HbLoopTest ==
  /\ node.hb = "loop"
  /\ node' = [node EXCEPT !.hb = IF node.running THEN "sleep" ELSE "exited"]
  /\ UNCHANGED <<datanodes, files, chunk_to_datanodes, chunk_counter, cache_list, now,
                 resp, generated, issued, allocLog>>
  /\ NodeFrame

(* Lines 93-95: the sleep of 10 s ends; if (!running.load()) break.        *)
HbWake ==
  /\ node.hb = "sleep"
  /\ node' = [node EXCEPT !.hb = IF node.running THEN "send" ELSE "exited"]
  /\ UNCHANGED <<datanodes, files, chunk_to_datanodes, chunk_counter, cache_list, now,
                 resp, generated, issued, allocLog>>
  /\ NodeFrame

(* Lines 97-133: the Heartbeat RPC with the ids of the table, in the order *)
(* of the unordered_map; the coordinator never asks for deletions.         *)
HbSend ==
  /\ node.hb = "send"
  /\ \E ids \in Perms(getStoredChunkIds(chunk_metadata)) :
       Heartbeat(NodeAddr, ids, getAvailableSpace, getCurrentLoad)
  /\ node' = [node EXCEPT !.hb = "loop"]
  /\ NodeFrame

(* SIGINT is delivered: the handler of lines 175-178 sets running = false. *)
Signal ==
  /\ ~node.signalled
  /\ node' = [node EXCEPT !.running = FALSE, !.signalled = TRUE]
  /\ UNCHANGED <<datanodes, files, chunk_to_datanodes, chunk_counter, cache_list, now,
                 resp, generated, issued, allocLog>>
  /\ NodeFrame

(* The server handles a StoreChunk or a delete while it serves.            *)
NodeServe ==
  /\ node.server = "serving"
  /\ StoreStep \/ DeleteStep

HbSteps == HbRegister \/ HbLoopTest \/ HbWake \/ HbSend

NextNode == HbRegister \/ HbLoopTest \/ HbWake \/ HbSend \/ Signal \/ NodeServe

SpecNode == InitStore /\ [][NextNode]_vars

(* The heartbeat thread is scheduled whenever it can run.                  *)
FairNode == SpecNode /\ WF_vars(HbSteps)

(* ------------------------------ properties ----------------------------- *)

Max(a, b) == IF a >= b THEN a ELSE b

(* The nodes whose last heartbeat, seen from time t, is inside the window. *)
LiveAt(nodes, t) == {a \in DOMAIN nodes : t - nodes[a].last_heartbeat < LIVE_WINDOW}

(* The step just taken handled an AllocateChunkLocation / GetFileLocation. *)
AllocStep == chunk_counter' = chunk_counter + 1

AllocOkStep == AllocStep /\ resp'.status = "OK"

AllocFailStep == AllocStep /\ resp'.status = "RESOURCE_EXHAUSTED"

LocateStep == ops' = ops + 1 /\ resp'.op = "GetFileLocation"

(* C3: AllocateChunkLocation never returns the address of a node that is   *)
(* not live (heartbeat age of 30 s or more).                               *)
C3_PlacementOnlyOnLive ==
  [][AllocOkStep => \A k \in 1..Len(resp'.addresses) :
                      resp'.addresses[k] \in LiveAt(datanodes, now)]_vars

(* C4: every address in every chunk of a GetFileLocation response belongs  *)
(* to a node that is live at the time of the call, whatever was cached.    *)
C4_LocationsOnlyLive ==
  [][LocateStep => \A c \in 1..Len(resp'.chunks) :
                     Range(resp'.chunks[c].datanode_addresses)
                       \subseteq LiveAt(datanodes, now)]_vars

(* C5 as stated: a failed AllocateChunkLocation leaves the node table, the *)
(* file index, the placement map and the cache exactly as they were.       *)
C5_FailureChangesNothing ==
  [][AllocFailStep => /\ datanodes' = datanodes
                      /\ files' = files
                      /\ chunk_to_datanodes' = chunk_to_datanodes
                      /\ cache_list' = cache_list]_vars

(* C5 amended: a failed AllocateChunkLocation replies RESOURCE_EXHAUSTED    *)
(* and leaves files, placement and cache as they were; of the node table   *)
(* it removes exactly the records older than 60 s and alters no other.     *)
C5_FailureOnlySweeps ==
  [][AllocStep /\ resp'.chunk_id = NoId =>
       /\ resp'.status = "RESOURCE_EXHAUSTED"
       /\ DOMAIN datanodes' =
            {a \in DOMAIN datanodes : now - datanodes[a].last_heartbeat <= STALE_TIMEOUT}
       /\ \A a \in DOMAIN datanodes' : datanodes'[a] = datanodes[a]
       /\ files' = files
       /\ chunk_to_datanodes' = chunk_to_datanodes
       /\ cache_list' = cache_list]_vars

(* C5 witness: an allocation was refused while a node is in the table.     *)
C5_Witness ==
  /\ resp.op = "AllocateChunkLocation"
  /\ resp.status = "RESOURCE_EXHAUSTED"
  /\ DOMAIN datanodes # {}

(* The effect C6 states for a successful AllocateChunkLocation, apart from *)
(* which node records remain.                                              *)
C6_Effect ==
  LET f      == resp'.name
      i      == resp'.index
      S      == resp'.size
      id     == resp'.chunk_id
      chosen == resp'.addresses[1]
      old    == IF f \in DOMAIN files THEN files[f].chunk_ids ELSE <<>>
      oldSum == IF f \in DOMAIN files THEN files[f].total_size ELSE 0
      new    == files'[f].chunk_ids
  IN  /\ resp'.addresses = <<chosen>>
      /\ id # NoId
      /\ DOMAIN files' = DOMAIN files \cup {f}
      /\ \A g \in DOMAIN files : g # f => files'[g] = files[g]
      /\ Len(new) = Max(Len(old), i + 1)
      /\ new[i + 1] = id
      /\ \A k \in 1..Len(new) :
           k # i + 1 => new[k] = IF k <= Len(old) THEN old[k] ELSE NoId
      /\ files'[f].total_size = oldSum + S
      /\ DOMAIN chunk_to_datanodes' = DOMAIN chunk_to_datanodes \cup {id}
      /\ chunk_to_datanodes'[id] = <<chosen>>
      /\ \A c \in DOMAIN chunk_to_datanodes :
           c # id => chunk_to_datanodes'[c] = chunk_to_datanodes[c]
      /\ chosen \in DOMAIN datanodes
      /\ chosen \in DOMAIN datanodes'
      /\ datanodes'[chosen] =
           [datanodes[chosen] EXCEPT !.available_space = @ - S,
                                     !.current_load = @ + 1]
      /\ \A a \in DOMAIN datanodes' : a # chosen => datanodes'[a] = datanodes[a]

(* C6 as stated: a successful AllocateChunkLocation(f, i, S) has exactly   *)
(* the stated effect and no other node record changes.                     *)
C6_ExactEffect ==
  [][AllocOkStep => C6_Effect /\ DOMAIN datanodes' = DOMAIN datanodes]_vars

(* C6 amended: a successful AllocateChunkLocation(f, i, S) has the stated  *)
(* effect on the file, the placement map and the chosen node; the other    *)
(* node records are unchanged except that those older than 60 s are gone.  *)
C6_EffectWithSweep ==
  [][AllocOkStep =>
       /\ C6_Effect
       /\ DOMAIN datanodes' =
            {a \in DOMAIN datanodes : now - datanodes[a].last_heartbeat <= STALE_TIMEOUT}]_vars

(* C6 witness: an allocation at index 1 of a file without index 0 went     *)
(* through: the list was grown and index 0 holds the sentinel.             *)
C6_Witness ==
  /\ resp.op = "AllocateChunkLocation"
  /\ resp.status = "OK"
  /\ resp.index = 1
  /\ resp.name \in DOMAIN files
  /\ files[resp.name].chunk_ids = <<NoId, resp.chunk_id>>
  /\ Cardinality(DOMAIN datanodes) = 2

(* C7: GetFileLocation answers found=false iff the filename has no File    *)
(* record, so found=true whenever a record exists.                         *)
C7_FoundIffRecord ==
  [][LocateStep => (resp'.ok <=> resp'.name \in DOMAIN files)]_vars

(* The indices of f for which an allocation succeeded, in ascending order. *)
RECURSIVE Ascending(_)
Ascending(S) ==
  IF S = {} THEN <<>>
  ELSE LET m == CHOOSE x \in S : \A y \in S : x <= y
       IN  <<m>> \o Ascending(S \ {m})

AllocatedIndices(f) == {i \in 0..MaxIndex : <<f, i>> \in DOMAIN allocLog}

(* C8: when every index allocated for a file sits on a live node,          *)
(* GetFileLocation returns one chunk per allocated index, in ascending     *)
(* index order, each with the id last allocated for that index and the     *)
(* address that allocation returned.                                       *)
C8_LocationsFollowAllocations ==
  [][LocateStep =>
       LET f    == resp'.name
           idxs == Ascending(AllocatedIndices(f))
       IN  (\A k \in 1..Len(idxs) :
              allocLog[<<f, idxs[k]>>].address \in LiveAt(datanodes, now))
           => resp'.chunks =
                [k \in 1..Len(idxs) |->
                   [chunk_id |-> allocLog[<<f, idxs[k]>>].chunk_id,
                    datanode_addresses |-> <<allocLog[<<f, idxs[k]>>].address>>]]]_vars

(* C8 witness: a response listing both chunks of a file.                   *)
C8_Witness ==
  /\ resp.op = "GetFileLocation"
  /\ Len(resp.chunks) = 2
  /\ AllocatedIndices(resp.name) = {0, 1}

Qualifies(nodes, a, S) == nodes[a].available_space >= S

(* What C2 states of a result r of selectDataNodeForChunk(S) over nodes.   *)
LeastLoadedRoomiest(nodes, S, r) ==
  /\ (r = NoAddr) <=> ~\E a \in DOMAIN nodes : Qualifies(nodes, a, S)
  /\ r # NoAddr =>
       /\ r \in DOMAIN nodes
       /\ Qualifies(nodes, r, S)
       /\ \A a \in DOMAIN nodes :
            Qualifies(nodes, a, S) =>
              /\ nodes[a].current_load >= nodes[r].current_load
              /\ nodes[a].current_load = nodes[r].current_load
                   => nodes[a].available_space <= nodes[r].available_space

(* C2: selectDataNodeForChunk(S) returns the empty address iff no node of  *)
(* the (swept) table has available_space >= S, and otherwise a qualifying  *)
(* node of least load and, among those, of greatest available_space.       *)
C2_SelectLeastLoadedRoomiest ==
  probe.done => LeastLoadedRoomiest(datanodes, probe.chunk_size, probe.result)

(* The same over the tables in which every load is below INT32_MAX.        *)
SelectBelowInt32Max ==
  (probe.done /\ \A a \in DOMAIN datanodes : datanodes[a].current_load < INT32_MAX)
    => LeastLoadedRoomiest(datanodes, probe.chunk_size, probe.result)

(* The number of chunks placed on address.                                 *)
PlacedCount(address) ==
  Cardinality({id \in DOMAIN chunk_to_datanodes : chunk_to_datanodes[id] = <<address>>})

(* C10: with A, B, C registered at 5, 10 and 3 GiB and load 0, each of     *)
(* the ten 1 MiB allocations succeeds, and after the tenth B holds         *)
(* strictly more chunks than A and strictly more than C.                   *)
C10_LargestGetsMost ==
  /\ Cardinality(DOMAIN chunk_to_datanodes) = issued
  /\ issued = BalanceAllocations =>
       /\ PlacedCount("B") > PlacedCount("A")
       /\ PlacedCount("B") > PlacedCount("C")

(* C10 witness: the ten allocations are done; B has 4, A and C have 3.     *)
C10_Witness ==
  /\ issued = BalanceAllocations
  /\ PlacedCount("B") = 4
  /\ PlacedCount("A") = 3
  /\ PlacedCount("C") = 3

(* C1: every chunk id generated differs from every other one generated by  *)
(* the same coordinator, in any interleaving of AllocateChunkLocation      *)
(* calls: the ids generated are as many as the calls that generated one.   *)
C1_ChunkIdsDistinct == Cardinality(generated) = issued

(* C1 witness: two calls for the same (filename, index) are in progress    *)
(* at once, after a call that was refused for lack of a node.              *)
C1_Witness ==
  /\ resp.status = "RESOURCE_EXHAUSTED"
  /\ \E t, u \in Threads :
       /\ t # u
       /\ th[t].pc # "idle"
       /\ th[u].pc # "idle"
       /\ th[t].filename = th[u].filename
       /\ th[t].chunk_index = th[u].chunk_index

(* The step just taken is a GetFileLocation of the upload scenario.        *)
UploadLocateStep ==
  /\ resp'.op = "GetFileLocation"
  /\ UNCHANGED <<datanodes, files, chunk_counter, now, client, uploads>>

(* C9: once a file name has been uploaded again, GetFileLocation returns   *)
(* exactly the chunk ids of the latest upload (its hosts being live).      *)
C9_LatestUploadOnly ==
  [][UploadLocateStep =>
       LET f == resp'.name
           u == UploadOf(f)
       IN  (/\ u.complete
            /\ u.times >= 2
            /\ \A k \in 1..Len(u.latest) :
                 Range(chunk_to_datanodes[u.latest[k]]) \subseteq LiveAt(datanodes, now))
           => [k \in 1..Len(resp'.chunks) |-> resp'.chunks[k].chunk_id] = u.latest]_vars

(* The number of positions of the sequence s that hold x.                  *)
Count(s, x) == Cardinality({k \in 1..Len(s) : s[k] = x})

BeatStep == ops' = ops + 1 /\ resp'.op = "Heartbeat"

(* C11: Heartbeat(address, space, load, ids) returns ok; afterwards the    *)
(* node table holds a record for address with the reported space, load and *)
(* chunk set and heartbeat time now; the address is exactly once in        *)
(* ChunkPlacement[id] for every id reported, the holders an id had before  *)
(* are kept in order, ids not reported keep their placement, and handling  *)
(* the same heartbeat again changes no placement; file records and the     *)
(* other nodes are untouched.                                              *)
C11_HeartbeatEffect ==
  [][BeatStep =>
       LET a   == beat'.address
           ids == beat'.stored_chunks
       IN  /\ resp'.ok /\ resp'.status = "OK"
           /\ a \in DOMAIN datanodes'
           /\ datanodes'[a] = [address |-> a,
                               available_space |-> beat'.available_space,
                               current_load |-> beat'.current_load,
                               stored_chunks |-> Range(ids),
                               last_heartbeat |-> now']
           /\ \A id \in Range(ids) :
                /\ id \in DOMAIN chunk_to_datanodes'
                /\ Count(chunk_to_datanodes'[id], a) = 1
                /\ LET old == IF id \in DOMAIN chunk_to_datanodes
                                THEN chunk_to_datanodes[id] ELSE <<>>
                   IN  chunk_to_datanodes'[id] =
                         IF a \in Range(old) THEN old ELSE Append(old, a)
           /\ DOMAIN chunk_to_datanodes' = DOMAIN chunk_to_datanodes \cup Range(ids)
           /\ \A id \in DOMAIN chunk_to_datanodes \ Range(ids) :
                chunk_to_datanodes'[id] = chunk_to_datanodes[id]
           /\ AddHolder(chunk_to_datanodes', ids, 1, a) = chunk_to_datanodes'
           /\ files' = files
           /\ DOMAIN datanodes' = DOMAIN datanodes \cup {a}
           /\ \A b \in DOMAIN datanodes \ {a} : datanodes'[b] = datanodes[b]]_vars

(* C11 witness: a heartbeat from a node that was not in the table reported *)
(* twice an id placed on another node and became its second holder.        *)
C11_Witness ==
  /\ resp.op = "Heartbeat"
  /\ Len(beat.stored_chunks) = 2
  /\ beat.stored_chunks[1] = beat.stored_chunks[2]
  /\ beat.stored_chunks[1] # ForeignId
  /\ Len(chunk_to_datanodes[beat.stored_chunks[1]]) = 2
  /\ chunk_to_datanodes[beat.stored_chunks[1]][2] = beat.address
  /\ datanodes[beat.address].current_load = 5

(* C12: for a cache constructed with capacity C (0 counts as 1) the number *)
(* of entries, and every value size() returns, is at most C after every    *)
(* sequence of put, get, remove and clear calls made by any threads.       *)
C12_SizeWithinCapacity ==
  /\ cache_capacity = Max(chist.requested, 1)
  /\ Len(cache_list) <= Max(chist.requested, 1)
  /\ Cardinality(CacheKeys(cache_list)) = Len(cache_list)
  /\ cres.op = "size" => cres.size <= Max(chist.requested, 1)

(* C12 witness: a cache constructed with capacity 0 answers size() = 1     *)
(* after two different ids were put.                                       *)
C12_Witness ==
  /\ chist.requested = 0
  /\ cres.op = "size"
  /\ cres.size = 1
  /\ Len(chist.order) >= 2

CacheValue(cl, id) == cl[CachePos(cl, id)].value

(* Of the ids in keys, the one whose last use is the oldest.               *)
OldestUsed(order, keys) ==
  order[CHOOSE k \in 1..Len(order) :
          /\ order[k] \in keys
          /\ \A j \in (k + 1)..Len(order) : order[j] \notin keys]

(* C13: a put of an id that is present evicts nothing; a put of an absent  *)
(* id into a full cache removes exactly the entry whose last use (put, or  *)
(* get that hit) is the oldest; every other entry keeps its value and the  *)
(* id put holds the value put.  With capacity 3, after put 1, 2, 3, get 1, *)
(* put 4, the ids present are 1, 3 and 4.                                  *)
C13_EvictsLeastRecentlyUsed ==
  [][/\ cres'.op = "put" =>
         LET id     == cres'.chunk_id
             keys   == CacheKeys(cache_list)
             full   == Len(cache_list) >= cache_capacity
             gone   == IF id \notin keys /\ full
                         THEN {OldestUsed(chist.order, keys)} ELSE {}
         IN  /\ CacheKeys(cache_list') = (keys \ gone) \cup {id}
             /\ CacheValue(cache_list', id) = cres'.value
             /\ \A k \in (keys \ gone) \ {id} :
                  CacheValue(cache_list', k) = CacheValue(cache_list, k)
     /\ (chist'.on /\ chist'.script = Len(Script) /\ cache_capacity = 3) =>
         CacheKeys(cache_list') = {<<1>>, <<3>>, <<4>>}]_vars

(* C13 witness: the scenario was run on a cache of capacity 3; id 2 was    *)
(* evicted by the put of id 4.                                             *)
C13_Witness ==
  /\ chist.on
  /\ chist.script = Len(Script)
  /\ cache_capacity = 3
  /\ cres.op = "put"
  /\ <<2>> \notin CacheKeys(cache_list)
  /\ <<1>> \in CacheKeys(cache_list)

(* C14: when storeChunk(id, B) returns true, hasChunk(id) is true and a    *)
(* readChunk(id) made next returns exactly B, for every B including the    *)
(* empty one and also when id held another value before.                   *)
C14_StoreThenRead ==
  [][(dres'.op = "storeChunk" /\ dres'.ok) =>
       /\ hasChunk(chunk_metadata', dres'.chunk_id)
       /\ readChunk(disk', chunk_metadata', dres'.chunk_id) = dres'.data]_vars

(* C14 witness: chunk 1 was read back as the two bytes 1, 2 while chunk 2  *)
(* holds a stored empty sequence and chunk 1 had held other bytes before   *)
(* (three bytes are in use only if both chunks were stored).               *)
C14_Witness ==
  /\ dres.op = "readChunk"
  /\ dres.chunk_id = <<1>>
  /\ dres.out = <<1, 2>>
  /\ <<2>> \in DOMAIN disk
  /\ disk[<<2>>] = <<>>
  /\ hasChunk(chunk_metadata, <<2>>)

(* C15: the ReadChunk RPC answers NOT_FOUND iff the chunk's data file is   *)
(* absent or its bytes fail the digest check; for a chunk that is present  *)
(* and intact, a zero-byte one included, it answers OK with the bytes.     *)
C15_NotFoundIffAbsentOrCorrupt ==
  [][(dres'.op \in {"ReadChunk:OK", "ReadChunk:NOT_FOUND"}) =>
       LET id     == dres'.chunk_id
           absent == id \notin DOMAIN disk
           bad    == ~absent /\ ~verifyChecksum(chunk_metadata, id, disk[id])
       IN  /\ (dres'.op = "ReadChunk:NOT_FOUND") <=> (absent \/ bad)
           /\ (~absent /\ ~bad) => dres'.out = disk[id]]_vars

(* C17: storeChunk(id, B) returns false whenever used + |B| > capacity at  *)
(* the call, an existing copy of id counted in used, and then changes no   *)
(* data file, no sidecar, not used and not the chunk table.                *)
C17_RejectedStoreChangesNothing ==
  [][(dres'.op = "storeChunk"
        /\ used_space + Len(dres'.data) > total_capacity) =>
       /\ ~dres'.ok
       /\ UNCHANGED <<disk, sidecar, chunk_metadata, used_space>>]_vars

(* C17 witness: an overwrite was rejected that would have fitted had the   *)
(* existing copy not been counted.                                         *)
C17_Witness ==
  /\ dres.op = "storeChunk"
  /\ ~dres.ok
  /\ dres.chunk_id \in DOMAIN chunk_metadata
  /\ used_space + Len(dres.data) > total_capacity
  /\ used_space - chunk_metadata[dres.chunk_id].size + Len(dres.data) <= total_capacity

(* C20: deleteChunk(id) on a present chunk returns true, removes the data  *)
(* file and the sidecar, makes hasChunk false and readChunk empty and      *)
(* lowers used by the chunk's size; with the data file missing it returns  *)
(* false and changes neither used nor the chunk table; no other chunk is   *)
(* affected in either case.                                                *)
C20_DeleteEffect ==
  [][(dres'.op = "deleteChunk") =>
       LET id == dres'.chunk_id
       IN  /\ (id \in DOMAIN disk /\ hasChunk(chunk_metadata, id)) =>
                /\ dres'.ok
                /\ id \notin DOMAIN disk'
                /\ id \notin DOMAIN sidecar'
                /\ ~hasChunk(chunk_metadata', id)
                /\ readChunk(disk', chunk_metadata', id) = <<>>
                /\ used_space' = used_space - Len(disk[id])
           /\ (id \notin DOMAIN disk) =>
                /\ ~dres'.ok
                /\ used_space' = used_space
                /\ chunk_metadata' = chunk_metadata
           /\ \A other \in StoreIds \ {id} :
                /\ (other \in DOMAIN disk) = (other \in DOMAIN disk')
                /\ (other \in DOMAIN sidecar) = (other \in DOMAIN sidecar')
                /\ (other \in DOMAIN chunk_metadata) = (other \in DOMAIN chunk_metadata')
                /\ other \in DOMAIN disk => disk'[other] = disk[other]
                /\ other \in DOMAIN sidecar => sidecar'[other] = sidecar[other]
                /\ other \in DOMAIN chunk_metadata =>
                     chunk_metadata'[other] = chunk_metadata[other]]_vars

(* C20 witness: chunk 1 was deleted while chunk 2, of two bytes, stays and *)
(* is all that is in use.                                                  *)
C20_Witness ==
  /\ dres.op = "deleteChunk"
  /\ dres.ok
  /\ dres.chunk_id = <<1>>
  /\ <<2>> \in DOMAIN disk
  /\ Len(disk[<<2>>]) = 2
  /\ used_space = 2

(* No storeChunk or deleteChunk is in progress.                            *)
StorageQuiet == \A t \in Threads : st[t].pc = "idle"

(* A chunk is present when its data file and its sidecar exist.            *)
PresentChunks == DOMAIN disk \cap DOMAIN sidecar

(* C18: on a storage node used <= capacity in every reachable state,       *)
(* whatever the interleaving of concurrent stores, deletes and overwrites. *)
C18_UsedWithinCapacity == used_space <= total_capacity

(* C19: whenever no operation is in progress, used equals the sum of the   *)
(* byte lengths of the chunks present.                                     *)
C19_UsedIsSumOfPresent == StorageQuiet => used_space = SumSizes(disk, PresentChunks)

(* The step just taken ran DownloadFile from its start to its end.         *)
DownloadRun == dl.pc = "idle" /\ dl'.pc = "done"

(* C16: with a live node, after a zero-byte file was uploaded (registered  *)
(* with AllocateChunkLocation(name, 0, 0), which succeeded), downloading   *)
(* it by name succeeds and produces a zero-byte file.                      *)
C16_EmptyFileRoundTrip ==
  [][(/\ DownloadRun
      /\ UploadOf(dl'.file).complete
      /\ UploadOf(dl'.file).latest = <<>>
      /\ NodeAddr \in LiveAt(datanodes, now)) =>
       /\ dl'.result = "ok"
       /\ dl'.exists
       /\ dl'.bytes = <<>>]_vars

(* The sizes recorded in the chunk table, summed.                          *)
RECURSIVE TableSizes(_, _)
TableSizes(table, S) ==
  IF S = {} THEN 0
  ELSE LET x == CHOOSE y \in S : TRUE IN table[x].size + TableSizes(table, S \ {x})

(* C21: after the engine is destroyed and built again over the same root,  *)
(* it holds exactly the chunk ids it held before, hasChunk is true and     *)
(* readChunk returns the stored bytes for each of them, and used equals    *)
(* the sum of their sizes.                                                 *)
C21_RebuildKeepsChunks ==
  [][(dres'.op = "DataNodeStorage") =>
       /\ DOMAIN chunk_metadata' = DOMAIN chunk_metadata
       /\ \A id \in DOMAIN chunk_metadata :
            /\ hasChunk(chunk_metadata', id)
            /\ calculateChecksum(disk[id]) = chunk_metadata[id].checksum =>
                 readChunk(disk', chunk_metadata', id) = disk[id]
       /\ used_space' = TableSizes(chunk_metadata', DOMAIN chunk_metadata')
       /\ used_space' = SumSizes(disk, DOMAIN chunk_metadata)
       /\ used_space' = used_space]_vars

(* C21 witness: an engine was rebuilt over a root that holds chunk 1 with  *)
(* two bytes and chunk 2 with none.                                        *)
C21_Witness ==
  /\ dres.op = "DataNodeStorage"
  /\ DOMAIN chunk_metadata = StoreIds
  /\ readChunk(disk, chunk_metadata, <<1>>) = <<1, 2>>
  /\ disk[<<2>>] = <<>>
  /\ used_space = 2

(* The bytes of the data file of id no longer match its recorded digest.   *)
Mismatch(id) ==
  /\ id \in DOMAIN disk
  /\ id \in DOMAIN chunk_metadata
  /\ chunk_metadata[id].checksum # NoDigest
  /\ calculateChecksum(disk[id]) # chunk_metadata[id].checksum

(* C22: readChunk of a chunk whose bytes no longer match the recorded      *)
(* digest returns empty and leaves the data file, the sidecar, the table   *)
(* entry and used as they were, so hasChunk stays true and the id is still *)
(* reported in heartbeats.                                                 *)
C22_CorruptReadLeavesAll ==
  [][(dres'.op = "readChunk" /\ Mismatch(dres'.chunk_id)) =>
       /\ dres'.out = <<>>
       /\ UNCHANGED <<disk, sidecar, chunk_metadata, used_space>>
       /\ hasChunk(chunk_metadata', dres'.chunk_id)
       /\ dres'.chunk_id \in getStoredChunkIds(chunk_metadata')]_vars

(* C22 witness: a chunk of two bytes whose file was changed was read.      *)
C22_Witness ==
  /\ dres.op = "readChunk"
  /\ dres.out = <<>>
  /\ Mismatch(dres.chunk_id)
  /\ Len(disk[dres.chunk_id]) = 2

(* C23: the load counter of the storage node is never negative, whatever   *)
(* the interleaving of concurrent incrementLoad and decrementLoad calls.   *)
C23_LoadNeverNegative == getCurrentLoad >= 0

CleanupRunning == \E t \in Threads : st[t].op = "cleanupOrphanedChunks"

(* cleanupOrphanedChunks has returned and the node holds no chunk, file or *)
(* sidecar whose id is outside valid_chunks.                               *)
CleanupDone ==
  /\ dres.op = "cleanupOrphanedChunks"
  /\ \A t \in Threads : st[t].pc = "idle"
  /\ DOMAIN chunk_metadata \subseteq Range(dres.data)
  /\ DOMAIN disk \subseteq Range(dres.data)
  /\ DOMAIN sidecar \subseteq Range(dres.data)
  /\ used_space = SumSizes(disk, DOMAIN disk)

(* C24: cleanupOrphanedChunks(valid) terminates, and when it has returned  *)
(* every local chunk whose id is not in valid has been deleted (files,     *)
(* table entry, used), also when at least one local chunk is not in valid. *)
C24_CleanupTerminates == CleanupRunning ~> CleanupDone

(* --------------------- the coordinator restarts ------------------------ *)
(* The storage node of SpecNode keeps running while the coordinator        *)
(* process is started again: Manager and Cache are constructed empty.      *)
CoordinatorRestart ==
  /\ datanodes' = <<>>
  /\ files' = <<>>
  /\ chunk_to_datanodes' = <<>>
  /\ cache_list' = <<>>
  /\ chunk_counter' = 0
  /\ resp' = Reply("none", "", 0, 0, "OK", FALSE, NoId, <<>>, <<>>)
  /\ UNCHANGED <<now, generated, issued, allocLog>>
  /\ LongFrame

RestartAllocate ==
  /\ issued < MaxAlloc
  /\ \E f \in ConcFiles, s \in ConcSizes : AllocateChunkLocation(f, 0, s)
  /\ LongFrame

RestartLocate == \E f \in Files : LongLocate(f)

(* The node stores a chunk.                                                *)
RestartStore == \E id \in StoreIds : StoreCall(id, <<1>>)

NextRestart ==
  \/ HbRegister
  \/ HbLoopTest
  \/ HbWake
  \/ HbSend
  \/ RestartStore
  \/ CoordinatorRestart
  \/ RestartAllocate
  \/ RestartLocate
  \/ Pass

SpecRestart == InitStore /\ [][NextRestart]_vars

(* ------------------ heartbeats that fail on the way -------------------- *)
(* The coordinator cannot be reached, or the deadline of 5 s passes: the   *)
(* RPC returns a status that is not ok and the coordinator is unchanged.   *)
(* The thread writes an error or a warning to stderr (node.warned).        *)
RpcFails ==
  UNCHANGED <<datanodes, files, chunk_to_datanodes, chunk_counter, cache_list, now,
              resp, generated, issued, allocLog>>

(* Lines 83-88: the failed RegisterDataNode is logged; the loop starts.    *)
HbRegisterFail ==
  /\ node.hb = "register"
  /\ node' = [node EXCEPT !.hb = "loop", !.warned = TRUE]
  /\ RpcFails
  /\ NodeFrame

(* Variant: a failed heartbeat ends the thread.                            *)
HbSendFail_Exit ==
  /\ node.hb = "send"
  /\ node' = [node EXCEPT !.hb = "exited", !.warned = TRUE]
  /\ RpcFails
  /\ NodeFrame

(* Lines 131-133: the failed Heartbeat is logged; the loop goes on.        *)
HbSendFail ==
  /\ node.hb = "send"
  /\ node' = [node EXCEPT !.hb = "loop", !.warned = TRUE]
  /\ RpcFails
  /\ NodeFrame

NextRecover ==
  \/ HbRegister
  \/ HbRegisterFail
  \/ HbLoopTest
  \/ HbWake
  \/ HbSend
  \/ HbSendFail
  \/ Signal
  \/ LongAllocate
  \/ Pass

SpecRecover == InitStore /\ [][NextRecover]_vars

(* The heartbeat thread is scheduled, and the coordinator is reachable     *)
(* again and again: a heartbeat that is sent again and again gets through. *)
FairRecover ==
  /\ SpecRecover
  /\ WF_vars(HbRegister \/ HbRegisterFail)
  /\ WF_vars(HbLoopTest)
  /\ WF_vars(HbWake)
  /\ SF_vars(HbSend)

(* ------------------- the heartbeat thread on a clock ------------------- *)
(* Time in seconds, in steps of the RPC deadline.  node.timer is the time  *)
(* since the sleep began or since the deadline of the RPC was set;         *)
(* node.beaten: a Heartbeat of this node was handled.  The thread's own statements take no time, the sleep ends  *)
(* when its 10 s are over, and a heartbeat that has no reply when its      *)
(* deadline is reached fails (node.warned).                                *)

Timed == node.hb \in {"sleep", "flight", "reply"}

(* The step of the clock.                                                  *)
Lapse == HEARTBEAT_DEADLINE

(* Variant: the context of the RPC has no deadline.                        *)
MayPass_NoDeadline ==
  /\ node.hb \notin {"loop", "send"}
  /\ node.hb = "sleep" => node.timer + Lapse <= HEARTBEAT_PERIOD
  /\ node.hb \in {"flight", "reply"} => node.timer + Lapse <= HEARTBEAT_DEADLINE + LIVE_WINDOW

(* The time Lapse can pass in this state of the thread.                    *)
MayPass ==
  /\ node.hb \notin {"loop", "send"}
  /\ node.hb = "sleep" => node.timer + Lapse <= HEARTBEAT_PERIOD
  /\ node.hb \in {"flight", "reply"} => node.timer + Lapse <= HEARTBEAT_DEADLINE

Elapsed ==
  /\ MayPass
  /\ IF now + Lapse <= MaxTime
       THEN now' = now + Lapse /\ UNCHANGED datanodes
       ELSE /\ now' = now
            /\ datanodes' = [a \in DOMAIN datanodes |->
                 [datanodes[a] EXCEPT !.last_heartbeat = IF @ >= Lapse THEN @ - Lapse ELSE 0]]
  /\ node' = [node EXCEPT !.timer = IF Timed THEN @ + Lapse ELSE @]
  /\ UNCHANGED <<files, chunk_to_datanodes, chunk_counter, cache_list, resp,
                 generated, issued, allocLog>>
  /\ NodeFrame

(* Lines 92-93: while (running.load()), and the sleep begins.              *)
PdSleep ==
  /\ node.hb = "loop"
  /\ node' = [node EXCEPT !.hb = IF node.running THEN "sleep" ELSE "exited", !.timer = 0]
  /\ UNCHANGED <<datanodes, files, chunk_to_datanodes, chunk_counter, cache_list, now,
                 resp, generated, issued, allocLog>>
  /\ NodeFrame

(* Lines 93-95: sleep_for(seconds(10)) is over.                            *)
PdWake ==
  /\ node.hb = "sleep"
  /\ node.timer = HEARTBEAT_PERIOD
  /\ node' = [node EXCEPT !.hb = IF node.running THEN "send" ELSE "exited"]
  /\ UNCHANGED <<datanodes, files, chunk_to_datanodes, chunk_counter, cache_list, now,
                 resp, generated, issued, allocLog>>
  /\ NodeFrame

(* Lines 97-115: the request is built, the deadline is set, the call is    *)
(* made.                                                                   *)
PdSend ==
  /\ node.hb = "send"
  /\ node' = [node EXCEPT !.hb = "flight", !.timer = 0]
  /\ UNCHANGED <<datanodes, files, chunk_to_datanodes, chunk_counter, cache_list, now,
                 resp, generated, issued, allocLog>>
  /\ NodeFrame

(* The coordinator handles the Heartbeat.                                  *)
PdHandle ==
  /\ node.hb = "flight"
  /\ \E ids \in Perms(getStoredChunkIds(chunk_metadata)) :
       Heartbeat(NodeAddr, ids, getAvailableSpace, getCurrentLoad)
  /\ node' = [node EXCEPT !.hb = "reply", !.beaten = TRUE]
  /\ NodeFrame

(* Lines 117-130: the reply arrived in time, status.ok().                  *)
PdReceive ==
  /\ node.hb = "reply"
  /\ node' = [node EXCEPT !.hb = "loop"]
  /\ UNCHANGED <<datanodes, files, chunk_to_datanodes, chunk_counter, cache_list, now,
                 resp, generated, issued, allocLog>>
  /\ NodeFrame

(* Lines 131-133: the deadline is reached without a reply, the RPC fails.  *)
PdDeadline ==
  /\ node.hb \in {"flight", "reply"}
  /\ node.timer >= HEARTBEAT_DEADLINE
  /\ node' = [node EXCEPT !.hb = "loop", !.warned = TRUE]
  /\ UNCHANGED <<datanodes, files, chunk_to_datanodes, chunk_counter, cache_list, now,
                 resp, generated, issued, allocLog>>
  /\ NodeFrame

NextPeriod ==
  \/ HbRegister
  \/ PdSleep
  \/ PdWake
  \/ PdSend
  \/ PdHandle
  \/ PdReceive
  \/ PdDeadline
  \/ RestartAllocate
  \/ Elapsed

SpecPeriod == InitStore /\ [][NextPeriod]_vars

(* The storage node has shut down completely.                              *)
NodeDown ==
  /\ ~node.running
  /\ node.hb = "exited"
  /\ node.server = "stopped"
  /\ node.main = "returned"

(* C25: after a shutdown signal the storage node eventually shuts down     *)
(* completely: running is false, the heartbeat thread has exited and is    *)
(* joined, the gRPC server has stopped and runDataNode has returned.       *)
C25_ShutdownCompletes == node.signalled ~> NodeDown

(* C26: at every point of every interleaving of the handlers, every chunk  *)
(* id in the chunk list of any file, other than the empty sentinel, is a   *)
(* key of chunk_to_datanodes.                                              *)
C26_ListedIdsArePlaced ==
  \A f \in DOMAIN files :
    \A i \in 1..Len(files[f].chunk_ids) :
      files[f].chunk_ids[i] # NoId => files[f].chunk_ids[i] \in DOMAIN chunk_to_datanodes

(* Thread t has applied some, but not all, of the mutations of the         *)
(* allocateChunkLocation it runs.                                          *)
PartlyApplied(t) == th[t].pc \in {"chunks", "nodes"}

(* C27: handlers are atomic to one another: while one handler has applied  *)
(* only part of its mutations, no other handler reads or writes the        *)
(* tables.                                                                 *)
C27_HandlersAtomic ==
  [][\A t \in Threads :
       PartlyApplied(t) =>
         /\ \A u \in Threads \ {t} : th[u].pc = "idle" \/ th'[u] = th[u]
         /\ th'[t] = th[t] => datanodes' = datanodes]_vars

(* C30: the available_space of every node record is never negative, with   *)
(* registrations reporting non-negative space and allocations asking for   *)
(* non-negative sizes, in every interleaving.                              *)
C30_SpaceNeverNegative ==
  \A a \in DOMAIN datanodes : datanodes[a].available_space >= 0

(* The locks thread t holds.                                               *)
Holds(t) == {l \in LockNames : locks[l] = t}

(* Thread t is at the acquisition of lock l.                               *)
Requests(t, l) == hd[t].todo # <<>> /\ Head(hd[t].todo) = Acq(l)

(* C28: locks are only taken in the order nodes, files, chunks: no handler *)
(* requests nodes or files while it holds chunks, and none requests nodes  *)
(* while it holds files.                                                   *)
C28_LockOrder ==
  \A t \in Threads :
    /\ "chunks" \in Holds(t) => ~Requests(t, "nodes") /\ ~Requests(t, "files")
    /\ "files" \in Holds(t) => ~Requests(t, "nodes")

(* Thread t waits for a lock that a thread of S holds.                     *)
WaitsOn(t, S) == \E l \in LockNames : Requests(t, l) /\ locks[l] \in S

NoCircularWait ==
  \A S \in SUBSET Threads : S # {} => \E t \in S : ~WaitsOn(t, S)

(* C29: the coordinator never deadlocks: no set of handlers wait on each   *)
(* other's locks, and under fair scheduling every handler returns.         *)
C29_NoDeadlock ==
  /\ []NoCircularWait
  /\ \A t \in Threads : (hd[t].op # "none") ~> (hd[t].op = "none")

(* A handler holds chunks and waits for nodes, which another handler holds.*)
C29_Witness ==
  \E t \in Threads :
    /\ "chunks" \in Holds(t)
    /\ Requests(t, "nodes")
    /\ locks["nodes"] \in Threads \ {t}

(* The GetFileLocation for filename reaches getActiveDataNodes: the file   *)
(* is known and one of its ids is not empty, not cached, and placed.       *)
ConsultsLiveSet(filename) ==
  /\ filename \in DOMAIN files
  /\ \E i \in 1..Len(files[filename].chunk_ids) :
       LET chunk_id == files[filename].chunk_ids[i]
       IN  /\ chunk_id # NoId
           /\ chunk_id \notin CacheKeys(cache_list)
           /\ chunk_id \in DOMAIN chunk_to_datanodes

(* C31: the stale sweep runs in every placement decision and before every  *)
(* liveness lookup of GetFileLocation: after an AllocateChunkLocation, and *)
(* after a GetFileLocation that consults the live set, no node of the      *)
(* table is older than STALE_TIMEOUT and every node that was at most that  *)
(* old is still there.                                                     *)
C31_SweepBeforeLookups ==
  [][(\/ AllocOkStep
      \/ AllocFailStep
      \/ LocateStep /\ ConsultsLiveSet(resp'.name))
       => /\ \A a \in DOMAIN datanodes' : Age(datanodes'[a], now') <= STALE_TIMEOUT
          /\ \A a \in DOMAIN datanodes :
               Age(datanodes[a], now) <= STALE_TIMEOUT => a \in DOMAIN datanodes']_vars

(* The addresses of the locations that are not live.                       *)
NotLiveIn(locations) ==
  {a \in UNION {Range(locations[k].datanode_addresses) : k \in 1..Len(locations)} :
     a \notin LiveAt(datanodes, now)}

(* A cached location lists a node that is not live.                        *)
StaleCached ==
  NotLiveIn([k \in 1..Len(cache_list) |-> cache_list[k].value]) # {}

(* GetFileLocation has answered without a node that is not live.           *)
LocatedLive == resp.op = "GetFileLocation" /\ NotLiveIn(resp.chunks) = {}

(* C32: a stale cache hit is eventually corrected: once a cached location  *)
(* lists a node that is not live, the entry is eventually invalidated or   *)
(* GetFileLocation answers without that node.                              *)
C32_StaleHitCorrected == StaleCached ~> (~StaleCached \/ LocatedLive)

(* The file index without its time stamps: each filename's chunk list.     *)
ChunkLists(fs) == [f \in DOMAIN fs |-> fs[f].chunk_ids]

(* The step just taken delivered a heartbeat of the storage node.          *)
HbSendStep == node.hb = "send" /\ node'.hb = "loop"

(* The step just taken answered a GetFileLocation.                         *)
LocateAnswered == resp'.op = "GetFileLocation" /\ resp' # resp

NodeLive == NodeAddr \in LiveAt(datanodes, now)

(* C34: a failed heartbeat or a failed initial RegisterDataNode never ends *)
(* the heartbeat loop: the thread only exits once running is false, and a  *)
(* running node that is not registered and live becomes so again once its  *)
(* heartbeats get through, also after it was evicted.                      *)
C34_LoopSurvivesFailures ==
  /\ [](node.hb = "exited" => ~node.running)
  /\ (node.running /\ ~NodeLive) ~> (NodeLive \/ ~node.running)

(* C34 witness: an RPC of the heartbeat thread has failed, the first        *)
(* allocation was placed, the second found no node (the storage node had   *)
(* been evicted by the sweep), and the node, still running, is registered  *)
(* and live again.                                                         *)
C34_Witness ==
  /\ issued >= 2
  /\ \E id \in DOMAIN chunk_to_datanodes : id[3] = 0
  /\ \A id \in DOMAIN chunk_to_datanodes : id[3] # 1
  /\ node.warned
  /\ node.running
  /\ NodeLive

(* C35: whenever no operation of the engine is in progress, hasChunk(id)   *)
(* is true iff the data file and the sidecar of id both exist, after any   *)
(* interleaving of storeChunk and deleteChunk calls.                       *)
C35_HasChunkIffBothFiles ==
  StorageQuiet =>
    \A id \in StoreIds : hasChunk(chunk_metadata, id) <=> id \in PresentChunks

(* The ids the threads of the concurrent test store.                       *)
WorkerIds == {WorkerId(t, i) : t \in Threads, i \in 1..ChunksPerThread}

(* C36: when threads concurrently store chunks under pairwise distinct ids *)
(* whose sizes together fit the capacity, each reading its chunk back:     *)
(* every storeChunk returns true and every readChunk returns the bytes     *)
(* stored, and at the end getStoredChunkIds() has exactly the ids stored   *)
(* and used is the sum of their sizes.                                     *)
C36_DistinctIdsAllSucceed ==
  /\ \A t \in Threads : st[t].pc # "failed"
  /\ (\A t \in Threads : st[t].pc = "done") =>
       /\ getStoredChunkIds(chunk_metadata) = WorkerIds
       /\ Cardinality(WorkerIds) = Cardinality(Threads) * ChunksPerThread
       /\ used_space = SumSizes(disk, WorkerIds)

(* C36 witness: all threads are done and the chunks fill the capacity.     *)
C36_Witness ==
  /\ \A t \in Threads : st[t].pc = "done"
  /\ used_space = total_capacity

(* What the table and the sidecar hold for the byte sequence data.         *)
Describes(data) == [size |-> Len(data), checksum |-> calculateChecksum(data)]

(* C37: after two storeChunk calls for one id that ran concurrently and    *)
(* returned true, the state is that of one of them: the data file, the     *)
(* sidecar and the table entry describe the same bytes, readChunk returns  *)
(* them, and used counts their length once.                                *)
C37_SameIdStoresAgree ==
  StorageQuiet =>
    \A id \in DOMAIN disk \cap DOMAIN sidecar \cap DOMAIN chunk_metadata :
      /\ sidecar[id] = Describes(disk[id])
      /\ chunk_metadata[id] = Describes(disk[id])
      /\ readChunk(disk, chunk_metadata, id) = disk[id]

(* C38: readChunk never returns wrong data, also after the process died    *)
(* inside a storeChunk and the engine was rebuilt by the startup scan: a   *)
(* result that is not empty is the complete byte sequence of a storeChunk  *)
(* call (every call stores a sequence of CrashVals).                       *)
C38_ReadNeverWrong ==
  (dres.op = "readChunk" /\ dres.out # <<>>) => dres.out \in CrashVals

(* C39: the placement map only grows: no step of the coordinator removes a *)
(* chunk id from chunk_to_datanodes or an address from a chunk's list.     *)
C39_PlacementOnlyGrows ==
  [][\A id \in DOMAIN chunk_to_datanodes :
       /\ id \in DOMAIN chunk_to_datanodes'
       /\ Range(chunk_to_datanodes[id]) \subseteq Range(chunk_to_datanodes'[id])]_vars

(* C40: a storage node whose Heartbeat RPCs have all succeeded is, from    *)
(* its first heartbeat on, in the coordinator's table with a heartbeat age *)
(* below the live window, whatever the time: it is in the live set and the *)
(* stale sweep has not removed it.                                         *)
C40_BeatingNodeStaysLive ==
  (node.beaten /\ ~node.warned) =>
    /\ NodeAddr \in DOMAIN datanodes
    /\ Age(datanodes[NodeAddr], now) < LIVE_WINDOW
    /\ NodeAddr \in getActiveDataNodes(datanodes, now)

(* C40 witness: the node's heartbeats all succeeded, the last one was      *)
(* handled 20 s ago (a reply that took 5 s, the sleep of 10 s, a request   *)
(* that has been on its way for 5 s), an allocation has run the sweep      *)
(* since, the clock is past the first window, and the node is live.        *)
C40_Witness ==
  /\ node.beaten
  /\ ~node.warned
  /\ node.hb = "flight"
  /\ now > LIVE_WINDOW
  /\ issued > 0
  /\ NodeAddr \in getActiveDataNodes(datanodes, now)
  /\ Age(datanodes[NodeAddr], now) = HEARTBEAT_DEADLINE + HEARTBEAT_PERIOD + HEARTBEAT_DEADLINE

====
